---- MODULE Spec2Model ----
(***************************************************************************)
(* The orchestration core of the UdaPlay agent: the guarded state machine  *)
(* with its JSON persistence file (src/agent/state_machine.py), the        *)
(* document store's add_document with its dedup index and backups          *)
(* (src/database/vector_store.py) and the agent's process_query pipeline   *)
(* (src/agent/udaplay_agent.py).                                           *)
(*                                                                         *)
(* Every method is a pure operator from the object's state and the         *)
(* environment's answers (clock, file-system outcome, gateway replies) to  *)
(* the new state; an action applies the operator of one whole call.        *)
(***************************************************************************)
EXTENDS Integers, Sequences, FiniteSets, TLC

VARIABLES
    clock,           \* the wall clock, in ticks of the clock's resolution
    state_machine,   \* UdaPlayAgent.state_machine: state, last_transition_time, _persist_file
    state_json,      \* the content of <persist_directory>/state.json
    persisted,       \* history: the machine as of this instance's last completed write
    collection,      \* GameVectorStore.collection: the documents of the Chroma collection
    ingested_index,  \* the content of <persist_directory>/ingested_index.json
    documents,       \* the backup files of <persist_directory>/documents/
    conversation_history,   \* UdaPlayAgent.conversation_history
    memory,          \* AdvancedMemorySystem: the five memory categories
    memory_json,     \* the content of the memory file
    procs,           \* the processes that share one persist directory, each with its own objects
    last             \* history: the last call, its arguments, its result and the state before it

vars == <<clock, state_machine, state_json, persisted, collection, ingested_index,
          documents, conversation_history, memory, memory_json, procs, last>>

\* The variables of the document store.
storevars == <<collection, ingested_index, documents>>

\* The variables the state machine's calls leave alone.
othervars == <<collection, ingested_index, documents, conversation_history,
               memory, memory_json, procs>>

\* The variables of the memory store.
memoryvars == <<memory, memory_json>>

\* The variables of the state machine and its file.
machinevars == <<state_machine, state_json, persisted>>

\* The clock values the model explores.
MaxClock == 1

(***************************************************************************)
(* AgentState: the enum members and their values (state_machine.py 9-14).  *)
(***************************************************************************)
IDLE == "IDLE"
RETRIEVING == "RETRIEVING"
EVALUATING == "EVALUATING"
WEB_SEARCH == "WEB_SEARCH"
ANSWERING == "ANSWERING"

AgentState == {IDLE, RETRIEVING, EVALUATING, WEB_SEARCH, ANSWERING}

\* AgentState.<member>.value
value(s) ==
    CASE s = IDLE -> "idle"
      [] s = RETRIEVING -> "retrieving"
      [] s = EVALUATING -> "evaluating"
      [] s = WEB_SEARCH -> "web_search"
      [] s = ANSWERING -> "answering"

\* AgentState(state_str) raises ValueError unless some member has that value.
IsAgentStateValue(v) == \E s \in AgentState : value(s) = v

\* AgentState(state_str), where it does not raise.
AgentStateOf(v) == CHOOSE s \in AgentState : value(s) = v

\* A plausible slip: a transition table that lets evaluation end the cycle.
_allowed_loose(s) ==
    CASE s = IDLE -> {RETRIEVING}
      [] s = RETRIEVING -> {EVALUATING}
      [] s = EVALUATING -> {WEB_SEARCH, ANSWERING, IDLE}
      [] s = WEB_SEARCH -> {ANSWERING}
      [] s = ANSWERING -> {IDLE}
      [] OTHER -> {}

\* A plausible slip: a web search may send the machine back to evaluate.
_allowed_retry(s) ==
    CASE s = IDLE -> {RETRIEVING}
      [] s = RETRIEVING -> {EVALUATING}
      [] s = EVALUATING -> {WEB_SEARCH, ANSWERING}
      [] s = WEB_SEARCH -> {ANSWERING, EVALUATING}
      [] s = ANSWERING -> {IDLE}
      [] OTHER -> {}

\* AgentStateMachine._allowed.get(state, [])
_allowed(s) ==
    CASE s = IDLE -> {RETRIEVING}
      [] s = RETRIEVING -> {EVALUATING}
      [] s = EVALUATING -> {WEB_SEARCH, ANSWERING}
      [] s = WEB_SEARCH -> {ANSWERING}
      [] s = ANSWERING -> {IDLE}
      [] OTHER -> {}

(***************************************************************************)
(* datetime.  A datetime has whole seconds and a sub-second part;          *)
(* isoformat() writes the sub-second part only when it is not zero, and    *)
(* fromisoformat() reads both shapes.  The ISO text is the sequence of     *)
(* the numbers it spells.                                                  *)
(***************************************************************************)
\* datetime.now(UTC) when the clock shows c: two ticks to the second.
now(c) == [sec |-> c \div 2, usec |-> c % 2]

\* A plausible slip: a format that never writes the sub-second part.
isoformat_seconds(dt) == <<dt.sec>>

\* datetime.isoformat()
isoformat(dt) == IF dt.usec = 0 THEN <<dt.sec>> ELSE <<dt.sec, dt.usec>>

\* datetime.fromisoformat(ts) raises ValueError unless ts is ISO text.
IsIsoText(ts) == Len(ts) \in {1, 2}

\* datetime.fromisoformat(ts), where it does not raise.
fromisoformat(ts) ==
    IF Len(ts) = 1 THEN [sec |-> ts[1], usec |-> 0]
                   ELSE [sec |-> ts[1], usec |-> ts[2]]

(***************************************************************************)
(* The persistence file.  kind: "absent" (no file), "invalid_json" (not    *)
(* parseable, for instance cut short by a failed write), "not_object"      *)
(* (JSON, but no object), "json" (an object).  A missing, null or empty    *)
(* "state" is "", a missing, null or empty "last_transition_time" is <<>>. *)
(***************************************************************************)
NoFile == [kind |-> "absent", state |-> "", ts |-> <<>>]
InvalidJson == [kind |-> "invalid_json", state |-> "", ts |-> <<>>]
NotObject == [kind |-> "not_object", state |-> "", ts |-> <<>>]
JsonFile(st, ts) == [kind |-> "json", state |-> st, ts |-> ts]

\* Text that is no ISO timestamp.
BadTimestamp == <<0, 0, 0>>

\* The outcomes of reading and of writing a file.  A write that fails on
\* open leaves the file as it was; one that fails after open("w") has
\* truncated it leaves a file that does not parse.
ReadsOK == {"ok"}
ReadsIO == {"ok", "fail"}
WritesOK == {"ok"}
WritesIO == {"ok", "open_fails", "torn"}

\* AgentStateMachine.__init__
AgentStateMachine(t) ==
    [state |-> IDLE, last_transition_time |-> now(t), persist_file |-> FALSE]

\* A plausible slip: the state string is stored without the enum lookup.
load_from_file_raw(m, f, r, t) ==
    LET m1 == [m EXCEPT !.persist_file = TRUE]
    IN  IF f.kind # "json" \/ r # "ok" THEN m1
        ELSE [m1 EXCEPT !.state = IF f.state # "" THEN f.state ELSE @]

\* AgentStateMachine.load_from_file: m the machine, f the file, r the
\* outcome of reading it, t the clock.
load_from_file(m, f, r, t) ==
    LET m1 == [m EXCEPT !.persist_file = TRUE]
        m2 == IF f.state # "" THEN [m1 EXCEPT !.state = AgentStateOf(f.state)] ELSE m1
    IN  IF f.kind = "absent" THEN m1                       \* os.path.exists is false
        ELSE IF r # "ok" \/ f.kind # "json" THEN m1        \* open, json.load or data.get raises
        ELSE IF f.state # "" /\ ~IsAgentStateValue(f.state) THEN m1   \* ValueError
        ELSE IF f.ts = <<>> THEN m2
        ELSE IF IsIsoText(f.ts)
             THEN [m2 EXCEPT !.last_transition_time = fromisoformat(f.ts)]
             ELSE [m2 EXCEPT !.last_transition_time = now(t)]

\* AgentStateMachine._persist: the file after the call; w the write's outcome.
_persist(m, f, w) ==
    IF ~m.persist_file THEN f
    ELSE IF w = "ok" THEN JsonFile(value(m.state), isoformat(m.last_transition_time))
    ELSE IF w = "torn" THEN InvalidJson
    ELSE f

\* A plausible slip: the timestamp is refreshed before the guard is tested.
transition_stamp_first(m, target, t) ==
    IF target \in _allowed(m.state)
    THEN [m EXCEPT !.state = target, !.last_transition_time = now(t)]
    ELSE [m EXCEPT !.last_transition_time = now(t)]

\* AgentStateMachine.transition: the machine after the call.
transition(m, target, t) ==
    IF target \in _allowed(m.state)
    THEN [m EXCEPT !.state = target, !.last_transition_time = now(t)]
    ELSE m

\* AgentStateMachine.transition: the value returned.
transition_result(m, target) == target \in _allowed(m.state)

\* AgentStateMachine.get_state
get_state(m) == value(m.state)

\* A plausible slip: reset as a guarded transition to Idle.
reset_guarded(m, t) ==
    IF IDLE \in _allowed(m.state)
    THEN [m EXCEPT !.state = IDLE, !.last_transition_time = now(t)]
    ELSE m

\* A plausible slip: the predicate forgets which state the machine is in.
can_transition_any(m, target) == \E st \in AgentState : target \in _allowed(st)

\* AgentStateMachine.can_transition
can_transition(m, target) == target \in _allowed(m.state)

\* AgentStateMachine.reset: the machine after the call.
reset(m, t) == [m EXCEPT !.state = IDLE, !.last_transition_time = now(t)]

\* The history of a completed write: what the file now holds of machine m.
Snapshot(m, w, old) ==
    IF ~m.persist_file THEN old
    ELSE IF w = "ok"
         THEN [valid |-> TRUE, state |-> m.state, time |-> m.last_transition_time]
    ELSE IF w = "torn" THEN [old EXCEPT !.valid = FALSE]
    ELSE old

NoSnapshot == [valid |-> FALSE, state |-> IDLE, time |-> now(0)]

Call(op, target, ret, w) ==
    [op |-> op, target |-> target, ret |-> ret, w |-> w, at |-> clock,
     pre |-> state_machine, pre_file |-> state_json, pre_persisted |-> persisted]

(***************************************************************************)
(* The document store (vector_store.py).  A text is the sequence of its    *)
(* characters.  A document's content is its first 200 characters (head)    *)
(* and what follows them (tail): content[:200] is the head.                *)
(***************************************************************************)
\* The documents one store holds in the model.
MaxDocs == 2

RECURSIVE lstrip(_)
lstrip(s) == IF s # <<>> /\ Head(s) = " " THEN lstrip(Tail(s)) ELSE s

RECURSIVE rstrip(_)
rstrip(s) == IF s # <<>> /\ s[Len(s)] = " " THEN rstrip(SubSeq(s, 1, Len(s) - 1)) ELSE s

\* str.strip()
strip(s) == rstrip(lstrip(s))

\* hashlib.sha256(text).hexdigest(): one digest for each text.
sha256(text) == <<"sha256">> \o text

\* A plausible slip: the content prefix is part of every key.
dup_raw_with_content(content, metadata) ==
    strip(metadata.url) \o <<"|">> \o strip(metadata.title) \o <<"|">> \o content.head

\* The text the dedup key is the digest of (add_document, lines 305-307).
dup_raw(content, metadata) ==
    LET url == strip(metadata.url)
        title == strip(metadata.title)
    IN  IF url # <<>> \/ title # <<>> THEN url \o <<"|">> \o title ELSE content.head

dup_key(content, metadata) == sha256(dup_raw(content, metadata))

\* ingested_index.json: absent, not parseable, or an object of entries.
NoIndex == [kind |-> "absent", entries |-> {}]
InvalidIndex == [kind |-> "invalid_json", entries |-> {}]
IndexFile(entries) == [kind |-> "json", entries |-> entries]

\* The index as add_document reads it (lines 311-317): empty when the file
\* is absent or cannot be read or parsed.
seen_of(index, r) == IF index.kind = "json" /\ r = "ok" THEN index.entries ELSE {}

Keys(entries) == {e.key : e \in entries}

\* doc_id: none given (no caller of add_document gives one), or one made
\* from the clock.
NoDocId == [name |-> "", n |-> 0]
\* f"doc_{int(time.time() * 1000)}"
ClockDocId(t) == [name |-> "doc_", n |-> t]

\* collection.add(ids=[id], ...): an id the collection already holds is
\* left as it is.
collection_add(coll, id, content, metadata, t) ==
    IF \E d \in coll : d.id = id THEN coll
    ELSE coll \cup {[id |-> id, content |-> content, url |-> metadata.url,
                     title |-> metadata.title, ingested_at |-> isoformat(now(t))]}

\* Writing <doc_id>.json into documents/: a file of that name is replaced.
backup_write(docs, id, content, metadata, wb) ==
    LET others == {b \in docs : b.id # id}
    IN  IF wb = "ok"
        THEN others \cup {[id |-> id, kind |-> "json", content |-> content,
                           url |-> metadata.url, title |-> metadata.title]}
        ELSE IF wb = "torn"
        THEN others \cup {[id |-> id, kind |-> "invalid_json", content |-> content,
                           url |-> metadata.url, title |-> metadata.title]}
        ELSE docs

\* The environment of one add_document call: reading the index (r), the
\* collection's add (add), writing the index (wi), writing the backup (wb).
EnvOK == [r |-> "ok", add |-> "ok", wi |-> "ok", wb |-> "ok"]
EnvIO == [r : ReadsIO, add : {"ok", "raises"}, wi : WritesIO, wb : WritesIO]

\* A plausible slip: the index file is written before the new key is put
\* into it.
add_document_write_first(st, content, metadata, doc_id, t, env) ==
    LET key == dup_key(content, metadata)
        seen == seen_of(st.ingested_index, env.r)
        id == IF doc_id = NoDocId THEN ClockDocId(t) ELSE doc_id
    IN  IF key \in Keys(seen) THEN [st EXCEPT !.ret = FALSE]
        ELSE [collection |-> collection_add(st.collection, id, content, metadata, t),
              ingested_index |-> IndexFile(seen),
              documents |-> backup_write(st.documents, id, content, metadata, env.wb),
              ret |-> TRUE]

\* GameVectorStore.add_document: the store after the call and the value
\* returned.  st: the collection, the index file and the backups.
add_document(st, content, metadata, doc_id, t, env) ==
    LET key == dup_key(content, metadata)
        seen == seen_of(st.ingested_index, env.r)
        id == IF doc_id = NoDocId THEN ClockDocId(t) ELSE doc_id
        entry == [key |-> key, id |-> id, ingested_at |-> isoformat(now(t)),
                  title |-> strip(metadata.title), url |-> strip(metadata.url)]
        seen1 == {e \in seen : e.key # key} \cup {entry}
    IN  IF key \in Keys(seen) THEN [st EXCEPT !.ret = FALSE]
        ELSE IF env.add # "ok" THEN [st EXCEPT !.ret = FALSE]
        ELSE [collection |-> collection_add(st.collection, id, content, metadata, t),
              ingested_index |->
                  IF env.wi = "ok" THEN IndexFile(seen1)
                  ELSE IF env.wi = "torn" THEN InvalidIndex
                  ELSE st.ingested_index,
              documents |-> backup_write(st.documents, id, content, metadata, env.wb),
              ret |-> TRUE]

\* The store as one value.
Store == [collection |-> collection, ingested_index |-> ingested_index,
          documents |-> documents, ret |-> TRUE]

\* The documents of the model: two contents with the same first 200
\* characters, one with others; urls and titles, empty, padded or not.
Contents == {[head |-> <<"a">>, tail |-> ""], [head |-> <<"a">>, tail |-> "x"],
             [head |-> <<"b">>, tail |-> ""]}
Urls == {<<>>, <<"u">>, <<" ", "u">>}
Titles == {<<>>, <<"t">>}
Metadatas == [url : Urls, title : Titles]
DocIds == {NoDocId}

(***************************************************************************)
(* The memory store (advanced_memory.py).  A dict is a function on its     *)
(* keys.  A query is its number and its words; a text "x in query_lower"   *)
(* is read as "x is a word of the query".                                  *)
(***************************************************************************)
\* if len(self.facts_memory[user_id]) > 50
FactCap == 50

\* if len(self.conversation_context) > 50
ContextCap == 50

\* if len(self.successful_interactions) > 100
InteractionCap == 100

\* if not content or len(content) < 50
MinFactLength == 50

EmptyDict == [k \in {} |-> <<>>]

\* len(content): a content with a tail has more than 200 characters.
len(content) == IF content.tail = "" THEN Len(content.head) ELSE 201

\* The first 100 characters of a tail: tail "xy" is tail "x" followed by
\* the characters after the 300th.
first100(tail) == IF tail = "xy" THEN "x" ELSE tail

\* content[:300]
slice300(content) == [content EXCEPT !.tail = first100(content.tail)]

\* agent_response[:n]
prefix(text, n) == [text |-> text, upto |-> n]

NoFact == [kind |-> "none"]

\* _extract_fact_from_result (relevance_score and fact_type, functions of
\* the result alone, are not carried).
_extract_fact_from_result(query, result, t) ==
    IF len(result.content) < MinFactLength THEN NoFact
    ELSE [kind |-> "fact", content |-> slice300(result.content),
          source |-> result.metadata.url, title |-> result.metadata.title,
          query |-> query, timestamp |-> isoformat(now(t))]

\* existing.update(fact) on the first stored fact with the fact's content
RECURSIVE update_existing(_, _, _)
update_existing(facts, fact, i) ==
    IF i > Len(facts) THEN facts
    ELSE IF facts[i].content = fact.content THEN [facts EXCEPT ![i] = fact]
    ELSE update_existing(facts, fact, i + 1)

\* A plausible slip: on overflow the newest facts are dropped.
keep_last_oldest(list, n) == IF Len(list) > n THEN SubSeq(list, 1, n) ELSE list

\* list[-n:] when the list has more than n items
keep_last(list, n) == IF Len(list) > n THEN SubSeq(list, Len(list) - n + 1, Len(list)) ELSE list

\* A plausible slip: a duplicate is taken out and stored anew at the end.
_store_fact_moves(facts_memory, fact, user_id) ==
    LET facts == IF user_id \in DOMAIN facts_memory THEN facts_memory
                 ELSE facts_memory @@ (user_id :> <<>>)
        others == SelectSeq(facts[user_id], LAMBDA f : f.content # fact.content)
    IN  [facts EXCEPT ![user_id] = keep_last(Append(others, fact), FactCap)]

\* _store_fact: the facts dict after the call
_store_fact(facts_memory, fact, user_id) ==
    LET facts == IF user_id \in DOMAIN facts_memory THEN facts_memory
                 ELSE facts_memory @@ (user_id :> <<>>)
        existing == facts[user_id]
    IN  IF \E i \in DOMAIN existing : existing[i].content = fact.content
        THEN [facts EXCEPT ![user_id] = update_existing(existing, fact, 1)]
        ELSE [facts EXCEPT ![user_id] = keep_last(Append(existing, fact), FactCap)]

\* learn_from_web_search, lines 54-57: the loop over the results
RECURSIVE store_facts(_, _, _, _, _, _)
store_facts(facts_memory, query, results, i, user_id, t) ==
    IF i > Len(results) THEN facts_memory
    ELSE LET fact == _extract_fact_from_result(query, results[i], t)
         IN  store_facts(IF fact = NoFact THEN facts_memory
                         ELSE _store_fact(facts_memory, fact, user_id),
                         query, results, i + 1, user_id, t)

genres == <<"action", "rpg", "adventure", "racing", "sports", "fighting", "puzzle", "strategy">>
platforms == <<"playstation", "xbox", "nintendo", "pc", "mobile">>
interest_keywords == <<"like", "love", "enjoy", "favorite", "prefer">>

Contains(list, x) == \E i \in DOMAIN list : list[i] = x

\* A plausible slip: a mentioned value is appended whether listed or not.
RECURSIVE append_mentioned_again(_, _, _, _)
append_mentioned_again(list, candidates, words, i) ==
    IF i > Len(candidates) THEN list
    ELSE append_mentioned_again(IF Contains(words, candidates[i])
                                THEN Append(list, candidates[i]) ELSE list,
                                candidates, words, i + 1)

\* for x in candidates: if x in query_lower and x not in list: list.append(x)
RECURSIVE append_mentioned(_, _, _, _)
append_mentioned(list, candidates, words, i) ==
    IF i > Len(candidates) THEN list
    ELSE append_mentioned(IF Contains(words, candidates[i]) /\ ~Contains(list, candidates[i])
                          THEN Append(list, candidates[i]) ELSE list,
                          candidates, words, i + 1)

\* The entry a user gets on first mention (lines 243-250, 293-300).
new_preferences(t) ==
    [genres |-> <<>>, platforms |-> <<>>, publishers |-> <<>>, interests |-> <<>>,
     last_updated |-> isoformat(now(t))]

with_user(user_preferences, user_id, t) ==
    IF user_id \in DOMAIN user_preferences THEN user_preferences
    ELSE user_preferences @@ (user_id :> new_preferences(t))

\* _update_user_preferences
_update_user_preferences(user_preferences, query, user_id, t) ==
    LET prefs == with_user(user_preferences, user_id, t)
    IN  [prefs EXCEPT ![user_id] =
            [@ EXCEPT !.genres = append_mentioned(@, genres, query.words, 1),
                      !.platforms = append_mentioned(@, platforms, query.words, 1),
                      !.last_updated = isoformat(now(t))]]

\* words.index(keyword)
RECURSIVE index(_, _, _)
index(words, x, i) == IF words[i] = x THEN i ELSE index(words, x, i + 1)

\* _extract_preferences_from_conversation: the loop over interest_keywords
RECURSIVE append_interests(_, _, _)
append_interests(interests, words, i) ==
    IF i > Len(interest_keywords) THEN interests
    ELSE LET k == interest_keywords[i]
             at == IF Contains(words, k) THEN index(words, k, 1) ELSE 0
             found == at > 0 /\ at + 1 <= Len(words)
         IN  append_interests(IF found /\ ~Contains(interests, words[at + 1])
                              THEN Append(interests, words[at + 1]) ELSE interests,
                              words, i + 1)

\* _extract_preferences_from_conversation
_extract_preferences_from_conversation(user_preferences, query, user_id, t) ==
    LET prefs == with_user(user_preferences, user_id, t)
    IN  [prefs EXCEPT ![user_id] =
            [@ EXCEPT !.interests = append_interests(@, query.words, 1)]]

\* f"search_pattern_{hash(query) % 1000}": the query's number stands for
\* its hash.
pattern_key(query) == <<"search_pattern_", query.id % 1000>>

\* _learn_search_pattern.  avg_results is kept as the list of the totals it
\* was folded from: Append(a, n) stands for (a + n) / 2.
_learn_search_pattern(learned_patterns, query, total_results, t) ==
    LET key == pattern_key(query)
        patterns == IF key \in DOMAIN learned_patterns THEN learned_patterns
                    ELSE learned_patterns @@
                         (key :> [query_pattern |-> query, success_count |-> 0,
                                  avg_results |-> <<>>, last_success |-> <<>>])
    IN  [patterns EXCEPT ![key] =
            [@ EXCEPT !.success_count = @ + 1,
                      !.avg_results = Append(@, total_results),
                      !.last_success = isoformat(now(t))]]

\* What the model knows of an answer's text: its length and its words.
AnswerLength(text) ==
    CASE text = "text" -> 4
      [] text = "No response generated" -> 21
      [] OTHER -> 101

AnswerWords(text) ==
    CASE text = "text" -> {"text"}
      [] text = "No response generated" -> {"no", "response", "generated"}
      [] OTHER -> {"the", "game", "is", "definitely", "long"}

\* _calculate_success_score, in hundredths
_calculate_success_score(response) ==
    LET score == 50
            + (IF AnswerLength(response) > 100 THEN 20 ELSE 0)
            + (IF AnswerWords(response) \cap {"game", "platform", "genre", "publisher"} # {}
               THEN 20 ELSE 0)
            + (IF AnswerWords(response) \cap {"definitely", "certainly", "specifically"} # {}
               THEN 10 ELSE 0)
    IN  IF score > 100 THEN 100 ELSE score

\* _update_conversation_context
_update_conversation_context(conversation_context, query, response, user_id, t) ==
    keep_last(Append(conversation_context,
                     [timestamp |-> isoformat(now(t)), user_id |-> user_id,
                      user_query |-> query, agent_response |-> prefix(response, 100),
                      context_type |-> "conversation"]),
              ContextCap)

\* The memory of a system whose file does not exist or does not parse.
NoMemory ==
    [facts |-> EmptyDict, user_preferences |-> EmptyDict, conversation_context |-> <<>>,
     learned_patterns |-> EmptyDict, successful_interactions |-> <<>>]

\* The memory file: absent, not parsing, or the five categories and the
\* time of the write.
NoMemoryFile == [kind |-> "absent", data |-> NoMemory, last_updated |-> <<>>]
InvalidMemoryFile == [kind |-> "invalid_json", data |-> NoMemory, last_updated |-> <<>>]
MemoryFile(mem, t) == [kind |-> "json", data |-> mem, last_updated |-> isoformat(now(t))]

\* A plausible slip: the interaction log is not taken from the file.
_load_memory_unlogged(file, r) ==
    IF file.kind = "json" /\ r = "ok"
    THEN [file.data EXCEPT !.successful_interactions = <<>>]
    ELSE NoMemory

\* _load_memory and the five .get of __init__ (lines 33-40)
_load_memory(file, r) == IF file.kind = "json" /\ r = "ok" THEN file.data ELSE NoMemory

\* A plausible slip: the file is written from the data loaded at
\* construction, not from the categories as they are now.
_save_memory_loaded(mem, file, w, t) ==
    IF w = "ok" THEN MemoryFile(IF file.kind = "json" THEN file.data ELSE NoMemory, t)
    ELSE IF w = "torn" THEN InvalidMemoryFile
    ELSE file

\* _save_memory: the file after the call.  w = "open_fails" is also
\* os.makedirs raising.
_save_memory(mem, file, w, t) ==
    IF w = "ok" THEN MemoryFile(mem, t)
    ELSE IF w = "torn" THEN InvalidMemoryFile
    ELSE file

\* learn_from_web_search: the memory after the call.  total_results is
\* results.get("total_results", 0).
learn_from_web_search(mem, query, results, total_results, user_id, t) ==
    IF results = <<>> THEN mem
    ELSE [mem EXCEPT
            !.facts = store_facts(@, query, results, 1, user_id, t),
            !.user_preferences = _update_user_preferences(@, query, user_id, t),
            !.learned_patterns =
                IF total_results > 0 THEN _learn_search_pattern(@, query, total_results, t)
                ELSE @]

\* learn_from_web_search: whether the call reaches _save_memory
web_search_saves(results) == results # <<>>

\* learn_from_conversation: the memory after the call
learn_from_conversation(mem, query, response, user_id, t) ==
    [mem EXCEPT
        !.successful_interactions =
            keep_last(Append(@, [timestamp |-> isoformat(now(t)), user_query |-> query,
                                 agent_response |-> prefix(response, 200),
                                 user_id |-> user_id,
                                 success_score |-> _calculate_success_score(response)]),
                      InteractionCap),
        !.user_preferences = _extract_preferences_from_conversation(@, query, user_id, t),
        !.conversation_context = _update_conversation_context(@, query, response, user_id, t)]

(***************************************************************************)
(* The files a previous process may have left, and the initial state: a    *)
(* state machine just constructed, bound to no file.                       *)
(***************************************************************************)
StateStrings == {value(s) : s \in AgentState} \cup {"", "paused"}
TimestampTexts == {<<>>, BadTimestamp, isoformat(now(0)), isoformat(now(1))}
InitFiles ==
    {NoFile, InvalidJson, NotObject}
        \cup {JsonFile(st, ts) : st \in StateStrings, ts \in TimestampTexts}

Init ==
    /\ clock = 0
    /\ state_machine = AgentStateMachine(0)
    /\ state_json \in InitFiles
    /\ persisted = NoSnapshot
    /\ collection = {}
    /\ ingested_index = NoIndex
    /\ documents = {}
    /\ conversation_history = <<>>
    /\ memory = NoMemory
    /\ memory_json = NoMemoryFile
    /\ procs = <<>>
    /\ last = [op |-> "init", target |-> IDLE, ret |-> TRUE, w |-> "ok",
               pre |-> AgentStateMachine(0), pre_file |-> NoFile,
               pre_persisted |-> NoSnapshot]

\* Time passes.
Tick ==
    /\ clock < MaxClock
    /\ clock' = clock + 1
    /\ UNCHANGED <<machinevars, othervars, last>>

\* UdaPlayAgent.__init__, the state machine part: a new machine, bound to
\* state.json of the store's persist directory when there is one, and
\* loaded from it when it exists.  dir: whether persist_directory is set.
NewAgent(dir, r) ==
    LET m0 == AgentStateMachine(clock)
        m1 == IF ~dir THEN m0
              ELSE IF state_json.kind # "absent"
                   THEN load_from_file(m0, state_json, r, clock)
                   ELSE [m0 EXCEPT !.persist_file = TRUE]
    IN  /\ state_machine' = m1
        /\ persisted' = NoSnapshot
        /\ conversation_history' = <<>>
        /\ last' = Call("new", IDLE, TRUE, r)
        /\ memory' = _load_memory(memory_json, "ok")
        /\ UNCHANGED <<clock, state_json, storevars, memory_json, procs>>

\* state_machine.transition(target)
Transition(target, w) ==
    LET ok == transition_result(state_machine, target)
        m1 == transition(state_machine, target, clock)
    IN  /\ state_machine' = m1
        /\ state_json' = IF ok THEN _persist(m1, state_json, w) ELSE state_json
        /\ persisted' = IF ok THEN Snapshot(m1, w, persisted) ELSE persisted
        /\ last' = Call("transition", target, ok, w)
        /\ UNCHANGED <<clock, othervars>>

\* state_machine.reset()
Reset(w) ==
    LET m1 == reset(state_machine, clock)
    IN  /\ state_machine' = m1
        /\ state_json' = _persist(m1, state_json, w)
        /\ persisted' = Snapshot(m1, w, persisted)
        /\ last' = Call("reset", IDLE, TRUE, w)
        /\ UNCHANGED <<clock, othervars>>

\* state_machine.persist()
Persist(w) ==
    /\ state_json' = _persist(state_machine, state_json, w)
    /\ persisted' = Snapshot(state_machine, w, persisted)
    /\ last' = Call("persist", IDLE, TRUE, w)
    /\ UNCHANGED <<clock, state_machine, othervars>>

\* state_machine.can_transition(target)
CanTransition(target) ==
    /\ last' = Call("can_transition", target, can_transition(state_machine, target), "ok")
    /\ UNCHANGED <<clock, machinevars, othervars>>

\* The state machine and its file, with a file system that works.
Next ==
    \/ Tick
    \/ \E dir \in BOOLEAN : NewAgent(dir, "ok")
    \/ \E target \in AgentState : Transition(target, "ok")
    \/ Reset("ok")
    \/ Persist("ok")
    \/ \E target \in AgentState : CanTransition(target)

Spec == Init /\ [][Next]_vars

\* The same, with reads and writes that may fail.
NextIO ==
    \/ Tick
    \/ \E dir \in BOOLEAN, r \in ReadsIO : NewAgent(dir, r)
    \/ \E target \in AgentState, w \in WritesIO : Transition(target, w)
    \/ \E w \in WritesIO : Reset(w)
    \/ \E w \in WritesIO : Persist(w)
    \/ \E target \in AgentState : CanTransition(target)

SpecIO == Init /\ [][NextIO]_vars

(***************************************************************************)
(* The walks of the machine.  last.path: the states the machine has been   *)
(* in since it was last in Idle, by successful transitions; last.done: the *)
(* path of the last walk that came back to Idle.                           *)
(***************************************************************************)
\* A machine just constructed, bound to state.json of a persist directory
\* that holds no such file, or to none.
CycleInit ==
    /\ clock = 0
    /\ \E bound \in BOOLEAN :
           state_machine = [AgentStateMachine(0) EXCEPT !.persist_file = bound]
    /\ state_json = NoFile
    /\ persisted = NoSnapshot
    /\ collection = {}
    /\ ingested_index = NoIndex
    /\ documents = {}
    /\ conversation_history = <<>>
    /\ memory = NoMemory
    /\ memory_json = NoMemoryFile
    /\ procs = <<>>
    /\ last = [op |-> "init", target |-> IDLE, ret |-> TRUE,
               path |-> <<IDLE>>, done |-> <<>>]

\* state_machine.transition(target), with the walk it continues.
Step(target) ==
    LET ok == transition_result(state_machine, target)
        m1 == transition(state_machine, target, clock)
    IN  /\ state_machine' = m1
        /\ state_json' = IF ok THEN _persist(m1, state_json, "ok") ELSE state_json
        /\ persisted' = IF ok THEN Snapshot(m1, "ok", persisted) ELSE persisted
        /\ last' = [op |-> "transition", target |-> target, ret |-> ok,
                    path |-> IF ~ok THEN last.path
                             ELSE IF m1.state = IDLE THEN <<IDLE>>
                             ELSE Append(last.path, m1.state),
                    done |-> IF ok /\ m1.state = IDLE THEN last.path ELSE last.done]
        /\ UNCHANGED <<clock, othervars>>

\* state_machine.reset(): the walk is given up.
StepReset ==
    LET m1 == reset(state_machine, clock)
    IN  /\ state_machine' = m1
        /\ state_json' = _persist(m1, state_json, "ok")
        /\ persisted' = Snapshot(m1, "ok", persisted)
        /\ last' = [op |-> "reset", target |-> IDLE, ret |-> TRUE,
                    path |-> <<IDLE>>, done |-> last.done]
        /\ UNCHANGED <<clock, othervars>>

\* Time passes.
StepTick ==
    /\ clock < MaxClock
    /\ clock' = clock + 1
    /\ UNCHANGED <<machinevars, othervars, last>>

CycleNext ==
    \/ StepTick
    \/ \E target \in AgentState : Step(target)
    \/ StepReset

CycleSpec == CycleInit /\ [][CycleNext]_vars

(***************************************************************************)
(* The document store on its own.                                          *)
(***************************************************************************)
StoreInit ==
    /\ Init
    /\ state_json = NoFile

\* vector_store.add_document(content, metadata, doc_id)
AddDocument(content, metadata, doc_id, env) ==
    LET st == add_document(Store, content, metadata, doc_id, clock, env)
    IN  /\ \/ dup_key(content, metadata) \in Keys(ingested_index.entries)
           \/ /\ Cardinality(ingested_index.entries) < MaxDocs
              /\ Cardinality(collection) < MaxDocs
        /\ collection' = st.collection
        /\ ingested_index' = st.ingested_index
        /\ documents' = st.documents
        /\ last' = [op |-> "add_document", content |-> content, metadata |-> metadata,
                    doc_id |-> doc_id, env |-> env, ret |-> st.ret, pre |-> Store]
        /\ UNCHANGED <<clock, machinevars, conversation_history, memoryvars, procs>>

StoreNext ==
    \/ Tick
    \/ \E c \in Contents, m \in Metadatas, d \in DocIds : AddDocument(c, m, d, EnvOK)

StoreSpec == StoreInit /\ [][StoreNext]_vars

\* The same, with a file system and a collection that may fail, one
\* failure in a call, over two documents keyed by their content and two
\* keyed by their url and title.
FaultEnvs ==
    {env \in EnvIO :
        Cardinality({f \in {"r", "add", "wi", "wb"} : env[f] # "ok"}) <= 1}
FaultContents == {[head |-> <<"a">>, tail |-> ""], [head |-> <<"b">>, tail |-> ""]}
FaultMetadatas == {[url |-> <<>>, title |-> <<>>], [url |-> <<"u">>, title |-> <<"t">>]}

StoreNextIO ==
    \/ Tick
    \/ \E c \in FaultContents, m \in FaultMetadatas, d \in DocIds, env \in FaultEnvs :
           AddDocument(c, m, d, env)

StoreSpecIO == StoreInit /\ [][StoreNextIO]_vars

(***************************************************************************)
(* The agent's pipeline (udaplay_agent.py).  The three gateways and the    *)
(* text-generation service are the environment: each call returns a reply  *)
(* or raises.  Confidences are in hundredths.                              *)
(***************************************************************************)
\* The entries of the conversation transcript the model explores.
MaxHistory == 1

\* use_web_search: ... confidence < 0.7
Threshold == 70

\* confidence: float = 0.8  # Default confidence
DefaultConfidence == 80

\* The replies of the retrieval gateway: it raises, or returns an envelope
\* whose "games" is empty (or missing) or not.
RetrievalReplies ==
    {[kind |-> "raises", games |-> <<>>]}
        \cup {[kind |-> "returns", games |-> g] : g \in {<<>>, <<"Mock Game">>}}

\* The replies of the evaluation gateway: it raises, or returns a report,
\* with its keys or (keys = FALSE) without them.
EvaluationReplies ==
    {[kind |-> "raises", keys |-> FALSE, useful |-> FALSE, confidence |-> 0],
     [kind |-> "returns", keys |-> FALSE, useful |-> FALSE, confidence |-> 0]}
        \cup {[kind |-> "returns", keys |-> TRUE, useful |-> TRUE, confidence |-> c] :
                 c \in {69, 70}}
        \cup {[kind |-> "returns", keys |-> TRUE, useful |-> FALSE, confidence |-> 70]}

\* evaluation_data.get("useful", False), evaluation_data.get("confidence", 0.0)
get_useful(e) == IF e.keys THEN e.useful ELSE FALSE
get_confidence(e) == IF e.keys THEN e.confidence ELSE 0

\* The results the web-search gateway may return.
WebDoc1 == [content |-> [head |-> <<"a">>, tail |-> ""],
            metadata |-> [url |-> <<"u">>, title |-> <<"t">>]]
WebDoc2 == [content |-> [head |-> <<"b">>, tail |-> "x"],
            metadata |-> [url |-> <<>>, title |-> <<>>]]
WebReplies ==
    {[kind |-> "raises", results |-> <<>>], [kind |-> "unused", results |-> <<>>]}
        \cup {[kind |-> "returns", results |-> r] :
                 r \in {<<>>, <<WebDoc1, WebDoc2>>}}

\* The replies of the text-generation service: it raises, or returns a
\* text (content "" is None or empty) that may end in a confidence marker:
\* absent (or not a number), or a number.
Markers == {[kind |-> "number", n |-> 50], [kind |-> "number", n |-> 150]}
LlmReplies ==
    {[kind |-> "raises", content |-> "", marker |-> [kind |-> "absent", n |-> 0]],
     [kind |-> "unused", content |-> "", marker |-> [kind |-> "absent", n |-> 0]],
     [kind |-> "returns", content |-> "", marker |-> [kind |-> "absent", n |-> 0]]}
        \cup {[kind |-> "returns", content |-> "text", marker |-> k] : k \in Markers}

\* A plausible slip: a threshold that 0.7 itself does not pass.
use_web_search_strict(e) == ~get_useful(e) \/ get_confidence(e) <= Threshold

\* use_web_search (process_query, line 148)
use_web_search(e) == ~get_useful(e) \/ get_confidence(e) < Threshold

\* _generate_final_answer: the sources and the search method (lines 227-252).
\* hasweb: web_results and web_results.get("results").
final_sources(games, hasweb) ==
    (IF games # <<>> THEN <<"vector_db">> ELSE <<>>)
        \o (IF hasweb THEN <<"web_search">> ELSE <<>>)

final_search_method(games, hasweb) ==
    IF hasweb
    THEN (IF final_sources(games, hasweb) # <<>> THEN "combined" ELSE "web_search")
    ELSE "vector_db"

\* _generate_final_answer: the confidence read from the answer (lines 289-296).
final_confidence(llm) ==
    IF llm.content # "" /\ llm.marker.kind = "number" THEN llm.marker.n
    ELSE DefaultConfidence

\* _generate_final_answer, where the text-generation call returns.
_generate_final_answer(games, hasweb, llm) ==
    [answer |-> [kind |-> "answer",
                 text |-> IF llm.content # "" THEN llm.content ELSE "No response generated"],
     confidence |-> final_confidence(llm),
     sources |-> final_sources(games, hasweb),
     search_method |-> final_search_method(games, hasweb)]

\* A plausible slip: an error response that keeps the default method.
error_response_default(e) ==
    [answer |-> [kind |-> "error", text |-> e], confidence |-> 0,
     sources |-> <<>>, search_method |-> "vector_db"]

\* The response of the except branch (lines 214-221); e the exception's text.
error_response(e) ==
    [answer |-> [kind |-> "error", text |-> e], confidence |-> 0,
     sources |-> <<>>, search_method |-> "error"]

\* The loop over the web results (lines 176-185): add_document for each,
\* the first at clock t, the later ones at t + adv.
RECURSIVE add_all(_, _, _, _, _)
add_all(st, results, i, t, adv) ==
    IF i > Len(results) THEN st
    ELSE add_all(add_document(st, results[i].content, results[i].metadata, NoDocId,
                              IF i = 1 THEN t ELSE t + adv, EnvOK),
                 results, i + 1, t, adv)

Events(calls, m) == [i \in 1..Len(calls) |-> [call |-> calls[i], state |-> m.state]]

\* A plausible slip: the web is searched before the retrieval is evaluated.
stage_calls_web_first(web) ==
    <<"retrieval">> \o (IF web THEN <<"web_search">> ELSE <<>>)
        \o <<"evaluation", "synthesis">>

\* The calls of steps 1 to 4 of process_query (lines 136-163), in the
\* order of the code; web: whether the web search is used.
stage_calls(web) ==
    <<"retrieval", "evaluation">> \o (IF web THEN <<"web_search">> ELSE <<>>)
        \o <<"synthesis">>

\* The question put to the agent.
user_question == [id |-> 0, words |-> <<>>]

\* The answered queries the memory store of the agent model logs.
MaxQueries == 1

\* The agent as one value.
Agent ==
    [state_machine |-> state_machine, state_json |-> state_json, persisted |-> persisted,
     store |-> Store, conversation_history |-> conversation_history,
     memory |-> memory, memory_json |-> memory_json,
     response |-> error_response(""), raised |-> FALSE, trace |-> <<>>]

\* A plausible slip: the transcript is appended to on every return, the
\* error return too.
except_branch_logged(ag, e, calls) ==
    [ag EXCEPT !.response = error_response(e), !.raised = FALSE,
               !.trace = Events(calls, ag.state_machine),
               !.conversation_history =
                   Append(@, [user |-> "question", assistant |-> e,
                              timestamp |-> isoformat(now(0))])]

\* The except branch of process_query (lines 213-221): the error response
\* is returned and nothing else is touched.  calls: the calls made so far.
except_branch(ag, e, calls) ==
    [ag EXCEPT !.response = error_response(e), !.raised = FALSE,
               !.trace = Events(calls, ag.state_machine)]

\* UdaPlayAgent.process_query: the agent after the call, with the response
\* returned, whether the call raised instead, and the trace of the calls it
\* made, each with the state the machine was in.  inp: the environment's
\* replies; t: the clock.
process_query(ag, inp, t) ==
    LET m == ag.state_machine
        games == inp.retrieval.games
        web == use_web_search(inp.evaluation)
        results == IF web THEN inp.web.results ELSE <<>>
        hasweb == results # <<>>
        final == _generate_final_answer(games, hasweb, inp.llm)
        c_syn == stage_calls(web)
        c_web == SubSeq(c_syn, 1, Len(c_syn) - 1)
        c_eval == SubSeq(c_syn, 1, 2)
        \* lines 174-190: one try around the loop and the web learning
        c_add == IF ~hasweb THEN <<>>
                 ELSE IF inp.add_raises THEN <<"add_document">>
                 ELSE [i \in 1..Len(results) |-> "add_document"]
                          \o <<"learn_from_web_search">>
        store1 == IF hasweb /\ ~inp.add_raises
                  THEN add_all(ag.store, results, 1, t, inp.adv)
                  ELSE ag.store
        c_all == c_syn \o c_add \o <<"learn_from_conversation", "persist">>
        \* line 188, reached when the loop has ended
        learns == hasweb /\ ~inp.add_raises
        memory1 == IF learns
                   THEN learn_from_web_search(ag.memory, user_question, results,
                                              Len(results), "default", t + inp.adv)
                   ELSE ag.memory
        file1 == IF learns THEN _save_memory(memory1, ag.memory_json, "ok", t + inp.adv)
                 ELSE ag.memory_json
        \* line 194
        memory2 == learn_from_conversation(memory1, user_question, final.answer.text,
                                           "default", t + inp.adv)
        failed(e, calls) == except_branch(ag, e, calls)
    IN  IF inp.retrieval.kind = "raises" THEN failed("retrieval", <<"retrieval">>)
        ELSE IF inp.evaluation.kind = "raises" THEN failed("evaluation", c_eval)
        ELSE IF web /\ inp.web.kind = "raises" THEN failed("web_search", c_web)
        ELSE IF inp.llm.kind = "raises" THEN failed("synthesis", c_syn)
        ELSE IF final.confidence < 0 \/ final.confidence > 100
             THEN failed("validation", c_syn)      \* AgentResponse: ge=0.0, le=1.0
        ELSE [state_machine |-> m,
              state_json |-> _persist(m, ag.state_json, inp.w),
              persisted |-> Snapshot(m, inp.w, ag.persisted),
              store |-> store1,
              memory |-> memory2,
              memory_json |-> _save_memory(memory2, file1, "ok", t + inp.adv),
              conversation_history |->
                  Append(ag.conversation_history,
                         [user |-> "question", assistant |-> final.answer.text,
                          timestamp |-> isoformat(now(t + inp.adv))]),
              response |-> [answer |-> final.answer, confidence |-> final.confidence,
                            sources |-> final.sources,
                            search_method |-> final.search_method],
              raised |-> FALSE,
              trace |-> Events(c_all, m)]

\* The replies one call can meet, each reply nobody reads set to "unused".
PQInputs ==
    {inp \in [retrieval : RetrievalReplies, evaluation : EvaluationReplies,
              web : WebReplies, llm : LlmReplies, add_raises : BOOLEAN,
              adv : {0, 1}, w : WritesOK] :
        LET early == inp.retrieval.kind = "raises" \/ inp.evaluation.kind = "raises"
            web == ~early /\ use_web_search(inp.evaluation)
            synth == ~early /\ ~(web /\ inp.web.kind = "raises")
            adds == synth /\ inp.llm.kind = "returns" /\ web /\ inp.web.results # <<>>
        IN  /\ inp.retrieval.kind = "raises" =>
                  inp.evaluation = [kind |-> "raises", keys |-> FALSE,
                                    useful |-> FALSE, confidence |-> 0]
            /\ (inp.web.kind = "unused") = ~web
            /\ (inp.llm.kind = "unused") = ~synth
            /\ ~adds => ~inp.add_raises
            /\ ~(adds /\ ~inp.add_raises /\ Len(inp.web.results) > 1) => inp.adv = 0}

\* agent.process_query(question)
ProcessQuery(inp) ==
    \E ag \in {process_query(Agent, inp, clock)} :
        /\ Len(conversation_history) < MaxHistory
        /\ Len(memory.successful_interactions) < MaxQueries
        /\ clock + inp.adv <= MaxClock
        /\ clock' = clock + inp.adv
        /\ state_machine' = ag.state_machine
        /\ state_json' = ag.state_json
        /\ persisted' = ag.persisted
        /\ collection' = ag.store.collection
        /\ ingested_index' = ag.store.ingested_index
        /\ documents' = ag.store.documents
        /\ conversation_history' = ag.conversation_history
        /\ UNCHANGED procs
        /\ memory' = ag.memory
        /\ memory_json' = ag.memory_json
        /\ last' = [op |-> "process_query", inp |-> inp, response |-> ag.response,
                    raised |-> ag.raised, trace |-> ag.trace,
                    pre |-> state_machine, pre_file |-> state_json]

\* The files a previous run may have left: none, or one written in a state.
AgentFiles ==
    {NoFile} \cup {JsonFile(value(st), isoformat(now(0))) : st \in {IDLE, RETRIEVING}}

AgentInit ==
    /\ Init
    /\ state_json \in AgentFiles

AgentNext ==
    \/ \E dir \in BOOLEAN : NewAgent(dir, "ok")
    \/ \E inp \in PQInputs : ProcessQuery(inp)

AgentSpec == AgentInit /\ [][AgentNext]_vars

\* The replies with which a call answers from the web: nothing is
\* retrieved, the web search returns documents and the answer is written.
AnsweredInputs ==
    {inp \in PQInputs : /\ inp.retrieval = [kind |-> "returns", games |-> <<>>]
                        /\ ~inp.evaluation.keys
                        /\ inp.web.kind = "returns"
                        /\ inp.llm.kind = "returns"
                        /\ inp.llm.marker.kind = "number" => inp.llm.marker.n <= 100}

\* agent.process_query(question), the calls that return the error
\* response: the transcript and the log do not grow with them, and they
\* are followed beyond the number of answered questions.
ProcessQueryFailing(inp) ==
    /\ process_query(Agent, inp, clock).response.answer.kind = "error"
    /\ \E ag \in {process_query(Agent, inp, clock)} :
        /\ state_machine' = ag.state_machine
        /\ state_json' = ag.state_json
        /\ persisted' = ag.persisted
        /\ collection' = ag.store.collection
        /\ ingested_index' = ag.store.ingested_index
        /\ documents' = ag.store.documents
        /\ conversation_history' = ag.conversation_history
        /\ memory' = ag.memory
        /\ memory_json' = ag.memory_json
        /\ last' = [op |-> "process_query", inp |-> inp, response |-> ag.response,
                    raised |-> ag.raised, trace |-> ag.trace,
                    pre |-> state_machine, pre_file |-> state_json]
        /\ UNCHANGED <<clock, procs>>

ErrorNext ==
    \/ NewAgent(TRUE, "ok")
    \/ \E inp \in AnsweredInputs : ProcessQuery(inp)
    \/ \E inp \in PQInputs : ProcessQueryFailing(inp)

ErrorSpec == AgentInit /\ [][ErrorNext]_vars

(***************************************************************************)
(* The memory store on its own: one user, whose n-th web result and n-th   *)
(* question are told apart by their number.                                *)
(***************************************************************************)
\* The distinct facts and the questions the model offers the store.
MaxFacts == 60
MaxTalks == 101

\* The web-search calls that bring no new fact.
MaxIdle == 1

\* The same, where the writes of the memory file may fail.
MaxFactsIO == 2
MaxTalksIO == 2

MemoryInit ==
    /\ Init
    /\ state_json = NoFile

\* The query of the web searches, and the n-th question and its answer.
WebQuery == [id |-> 0, words |-> <<"best", "rpg", "on", "pc">>]
Question(n) == [id |-> n, words |-> IF n = 1 THEN <<"i", "love", "zelda">> ELSE <<>>]
Answer(n) == IF n = 2 THEN "the game is definitely long" ELSE "text"

\* The n-th web result: a text of more than 200 characters, with tail "xy"
\* of more than 300.
Result(n, tail) ==
    [content |-> [head |-> <<n>>, tail |-> tail],
     metadata |-> [url |-> <<"u">>, title |-> <<"t">>]]

\* A web result too short to hold a fact.
ShortResult ==
    [content |-> [head |-> <<"a">>, tail |-> ""],
     metadata |-> [url |-> <<"u">>, title |-> <<"t">>]]

StoredFacts == IF "default" \in DOMAIN memory.facts THEN memory.facts["default"] ELSE <<>>

\* The numbers of the newest and of the oldest stored fact, and of the last
\* question logged.
NewestFact == IF StoredFacts = <<>> THEN 0 ELSE StoredFacts[Len(StoredFacts)].content.head[1]
OldestFact == IF StoredFacts = <<>> THEN 0 ELSE StoredFacts[1].content.head[1]
NewestTalk ==
    IF memory.successful_interactions = <<>> THEN 0
    ELSE memory.successful_interactions[Len(memory.successful_interactions)].user_query.id

SearchesLearned ==
    IF pattern_key(WebQuery) \in DOMAIN memory.learned_patterns
    THEN memory.learned_patterns[pattern_key(WebQuery)].success_count
    ELSE 0

\* The results of one web search: a new fact, a stored fact again, a stored
\* fact with a longer text, a text too short, or nothing.
ResultsOf(kind) ==
    CASE kind = "fresh" -> <<Result(NewestFact + 1, "x")>>
      [] kind = "again" -> <<Result(OldestFact, "x")>>
      [] kind = "longer" -> <<Result(OldestFact, "xy")>>
      [] kind = "short" -> <<ShortResult>>
      [] kind = "empty" -> <<>>

ResultKinds == {"fresh", "again", "longer", "short", "empty"}

\* What the store held when it last wrote its file in full (nothing,
\* before the first such write).
Saved == IF last.op = "init" THEN NoMemory ELSE last.saved

\* memory.learn_from_web_search(query, results)
LearnFromWebSearch(kind, w, maxFacts) ==
    LET results == ResultsOf(kind)
        mem == learn_from_web_search(memory, WebQuery, results, Len(results), "default", clock)
    IN  /\ kind = "fresh" => NewestFact < maxFacts
        /\ kind \in {"again", "longer"} => StoredFacts # <<>>
        /\ kind \in {"again", "longer", "short"} => SearchesLearned - NewestFact < MaxIdle
        /\ memory' = mem
        /\ memory_json' = IF web_search_saves(results)
                          THEN _save_memory(mem, memory_json, w, clock)
                          ELSE memory_json
        /\ last' = [op |-> "learn_from_web_search", kind |-> kind, n |-> NewestFact + 1,
                    w |-> w,
                    saved |-> IF web_search_saves(results) /\ w = "ok" THEN mem ELSE Saved]
        /\ UNCHANGED <<clock, machinevars, storevars, conversation_history, procs>>

\* memory.learn_from_conversation(question, answer)
LearnFromConversation(w, maxTalks) ==
    LET n == NewestTalk + 1
        mem == learn_from_conversation(memory, Question(n), Answer(n), "default", clock)
    IN  /\ n <= maxTalks
        /\ memory' = mem
        /\ memory_json' = _save_memory(mem, memory_json, w, clock)
        /\ last' = [op |-> "learn_from_conversation", kind |-> "talk", n |-> n, w |-> w,
                    saved |-> IF w = "ok" THEN mem ELSE Saved]
        /\ UNCHANGED <<clock, machinevars, storevars, conversation_history, procs>>

\* AdvancedMemorySystem(): a new process loads the memory file.
LoadMemory(r) ==
    /\ memory' = _load_memory(memory_json, r)
    /\ last' = [op |-> "load_memory", kind |-> "load", n |-> 0, w |-> r, saved |-> Saved]
    /\ UNCHANGED <<clock, machinevars, storevars, conversation_history, memory_json,
                   procs>>

MemoryNext ==
    \/ \E kind \in ResultKinds : LearnFromWebSearch(kind, "ok", MaxFacts)
    \/ LearnFromConversation("ok", MaxTalks)
    \/ LoadMemory("ok")

MemorySpec == MemoryInit /\ [][MemoryNext]_vars

\* The web searches one memory store learns in the model of the facts.
MaxSearches == 3

\* The results a search may bring: three texts of more than 200
\* characters, each in a cut of up to 300 and in a longer one, found at
\* one of two urls, and a text too short to hold a fact.
FactResults ==
    {[content |-> [head |-> <<n>>, tail |-> tail],
      metadata |-> [url |-> <<u>>, title |-> <<"t">>]] :
        n \in 1..3, tail \in {"x", "xy"}, u \in {"u", "v"}}
        \cup {[ShortResult EXCEPT !.content.head = <<0>>]}

\* memory.learn_from_web_search(query, {"results": [result]})
StoreFact(result) ==
    LET mem == learn_from_web_search(memory, WebQuery, <<result>>, 1, "default", clock)
    IN  /\ SearchesLearned < MaxSearches
        /\ memory' = mem
        /\ memory_json' = _save_memory(mem, memory_json, "ok", clock)
        /\ last' = [op |-> "store_fact", result |-> result, pre |-> StoredFacts]
        /\ UNCHANGED <<clock, machinevars, storevars, conversation_history, procs>>

FactNext ==
    \/ Tick
    \/ \E result \in FactResults : StoreFact(result)

FactSpec == MemoryInit /\ [][FactNext]_vars

\* The learning calls one memory store gets in the model of the
\* preferences.
MaxPrefCalls == 3

\* The queries of that model, each with the number its hash is read as.
PrefQueries ==
    {[id |-> 1, words |-> <<"best", "rpg", "on", "pc">>],
     [id |-> 2, words |-> <<"rpg", "racing", "on", "xbox">>],
     [id |-> 3, words |-> <<"i", "love", "zelda">>],
     [id |-> 4, words |-> <<"i", "love", "mario", "and", "like", "zelda">>],
     [id |-> 5, words |-> <<"racing", "i", "love">>]}
PrefUsers == {"default", "ana"}

\* The calls made so far.
PrefCalls == IF last.op = "init" THEN 0 ELSE last.n

\* memory.learn_from_web_search(query, results, user_id), with one result
LearnPreferencesFromSearch(query, user_id) ==
    LET mem == learn_from_web_search(memory, query, <<Result(1, "x")>>, 1,
                                     user_id, clock)
    IN  /\ PrefCalls < MaxPrefCalls
        /\ memory' = mem
        /\ memory_json' = _save_memory(mem, memory_json, "ok", clock)
        /\ last' = [op |-> "learn_from_web_search", user_id |-> user_id,
                    n |-> PrefCalls + 1, pre |-> memory.user_preferences]
        /\ UNCHANGED <<clock, machinevars, storevars, conversation_history, procs>>

\* memory.learn_from_conversation(query, response, user_id)
LearnPreferencesFromTalk(query, user_id) ==
    LET mem == learn_from_conversation(memory, query, "text", user_id, clock)
    IN  /\ PrefCalls < MaxPrefCalls
        /\ memory' = mem
        /\ memory_json' = _save_memory(mem, memory_json, "ok", clock)
        /\ last' = [op |-> "learn_from_conversation", user_id |-> user_id,
                    n |-> PrefCalls + 1, pre |-> memory.user_preferences]
        /\ UNCHANGED <<clock, machinevars, storevars, conversation_history, procs>>

PreferenceNext ==
    \/ \E query \in PrefQueries, user_id \in PrefUsers :
           LearnPreferencesFromSearch(query, user_id)
    \/ \E query \in PrefQueries, user_id \in PrefUsers :
           LearnPreferencesFromTalk(query, user_id)

PreferenceSpec == MemoryInit /\ [][PreferenceNext]_vars

\* The same, with reads and writes of the memory file that may fail.
MemoryNextIO ==
    \/ \E kind \in ResultKinds, w \in WritesIO : LearnFromWebSearch(kind, w, MaxFactsIO)
    \/ \E w \in WritesIO : LearnFromConversation(w, MaxTalksIO)
    \/ \E r \in ReadsIO : LoadMemory(r)

MemorySpecIO == MemoryInit /\ [][MemoryNextIO]_vars

(***************************************************************************)
(* The gateways: RetrieveGameTool (src/tools/retrieve_game.py) over        *)
(* GameVectorStore.search_games, EvaluateRetrievalTool                     *)
(* (src/tools/evaluate_retrieval.py) and GameWebSearchTool                 *)
(* (src/tools/game_web_search.py).  A call is an operator from the replies *)
(* of the services behind the gateway to what the caller gets: the JSON    *)
(* envelope returned, or raised = TRUE when an exception leaves the call.  *)
(* Scores, distances and confidences are in hundredths.  An envelope is a  *)
(* record of all the keys any envelope of its gateway has, keys the set of *)
(* those the JSON object holds.                                            *)
(***************************************************************************)
\* The hits one backend reply holds at most.
MaxHits == 2

\* The web results one search reply holds at most.
MaxWebResults == 2

\* max(0.0, min(1.0, x)), in hundredths
clamp(x) == IF x < 0 THEN 0 ELSE IF x > 100 THEN 100 ELSE x

\* Field(..., ge=0.0, le=1.0)
in_unit_range(x) == 0 <= x /\ x <= 100

\* The cosine distances collection.query may report (0 to 2).
Distances == {0, 50, 150}

\* collection.query: it raises, or returns its hits, nearest first.
BackendHits == {[doc |-> d, distance |-> x] : d \in {"d1", "d2"}, x \in Distances}
BackendReplies ==
    {[kind |-> "raises", hits |-> <<>>]}
        \cup {[kind |-> "returns", hits |-> h] :
                 h \in UNION {[1..n -> BackendHits] : n \in 0..MaxHits}}

\* The keys of one entry search_games returns (vector_store.py 204-215).
search_result_keys ==
    {"Name", "Platform", "Genre", "Publisher", "Description", "YearOfRelease",
     "content", "distance", "similarity_score", "rank"}

\* GameVectorStore.search_games: an exception of the backend gives [].
search_games(reply) ==
    IF reply.kind = "raises" THEN <<>>
    ELSE [i \in 1..Len(reply.hits) |->
             [keys |-> search_result_keys, content |-> reply.hits[i].doc,
              distance |-> reply.hits[i].distance,
              similarity_score |-> 100 - reply.hits[i].distance, rank |-> i]]

RECURSIVE sum_similarity(_, _)
sum_similarity(results, i) ==
    IF i > Len(results) THEN 0
    ELSE results[i].similarity_score + sum_similarity(results, i + 1)

\* sum(...) / len(search_results); the distances explored keep it whole.
mean_similarity(results) == sum_similarity(results, 1) \div Len(results)

\* The envelope of an empty search (retrieve_game.py 41-50).
retrieval_empty(query) ==
    [raised |-> FALSE,
     keys |-> {"games", "query", "total_results", "confidence_score",
               "search_method", "message"},
     games |-> <<>>, query |-> query, total_results |-> 0, confidence_score |-> 0,
     search_method |-> "vector_db", message |-> "No games found matching the query",
     error |-> <<>>]

\* The envelope of the except branch (retrieve_game.py 71-79).
retrieval_error(query, e) ==
    [raised |-> FALSE,
     keys |-> {"error", "query", "total_results", "confidence_score", "search_method"},
     games |-> <<>>, query |-> query, total_results |-> 0, confidence_score |-> 0,
     search_method |-> "vector_db", message |-> "",
     error |-> <<"Error searching games: ", e>>]

\* GameSearchResult(...).model_dump_json (retrieve_game.py 61-69)
retrieval_found(query, games, confidence) ==
    [raised |-> FALSE,
     keys |-> {"games", "query", "total_results", "confidence_score", "search_method"},
     games |-> games, query |-> query, total_results |-> Len(games),
     confidence_score |-> confidence, search_method |-> "vector_db",
     message |-> "", error |-> <<>>]

\* RetrieveGameTool.__call__: line 53 reads result["game"] of every entry,
\* a KeyError when an entry has no such key.
retrieve_game(query, reply) ==
    LET search_results == search_games(reply)
    IN  IF search_results = <<>> THEN retrieval_empty(query)
        ELSE IF \E i \in 1..Len(search_results) : "game" \notin search_results[i].keys
             THEN retrieval_error(query, "'game'")
        ELSE retrieval_found(query,
                             [i \in 1..Len(search_results) |-> search_results[i].game],
                             clamp(mean_similarity(search_results)))

\* The retrieved_docs handed to the evaluation: text that is no JSON, what
\* the retrieval gateway returns, or an envelope with games (as the test
\* suite builds them).
NotJson == [json |-> FALSE, keys |-> {}, games |-> <<>>]
AsDocs(envelope) == [json |-> TRUE, keys |-> envelope.keys, games |-> envelope.games]
RetrievedDocs ==
    {NotJson, [json |-> TRUE, keys |-> {"games"}, games |-> <<"Mock Game">>]}
        \cup {AsDocs(retrieve_game("q", r)) : r \in BackendReplies}

\* The replies of the judge (chat.completions.create): it raises, or its
\* content is no JSON, or a JSON object with the report's keys or without.
JudgeConfidences == {0 - 10, 0, 85, 100, 150}
NoJudge == [kind |-> "unused", json |-> FALSE, has_keys |-> FALSE,
            useful |-> FALSE, confidence |-> 0, recommendation |-> ""]
JudgeReplies ==
    {[NoJudge EXCEPT !.kind = "raises"], [NoJudge EXCEPT !.kind = "returns"],
     [NoJudge EXCEPT !.kind = "returns", !.json = TRUE]}
        \cup {[kind |-> "returns", json |-> TRUE, has_keys |-> TRUE, useful |-> u,
               confidence |-> c, recommendation |-> "proceed_with_answer"] :
                 u \in BOOLEAN, c \in JudgeConfidences}

\* _create_evaluation_report, where EvaluationReport(...) validates.
_create_evaluation_report(useful, description, confidence, recommendation, calls) ==
    [raised |-> FALSE, useful |-> useful, description |-> description,
     confidence |-> confidence, recommendation |-> recommendation,
     llm_calls |-> calls]

\* The report of the except branch (evaluate_retrieval.py 89-96).
evaluation_error(e, calls) ==
    _create_evaluation_report(FALSE, <<"Error during evaluation: ", e>>, 0,
                              "search_web", calls)

\* docs_data.get("games", [])
games_of(docs) == IF "games" \in docs.keys THEN docs.games ELSE <<>>

\* Lines 52-87: the judge is asked, its content parsed and the report
\* built; every exception ends in the except branch.
judge_report(llm) ==
    IF llm.kind # "returns" THEN evaluation_error("llm", 1)
    ELSE IF ~llm.json THEN evaluation_error("json", 1)
    ELSE LET useful == IF llm.has_keys THEN llm.useful ELSE FALSE
             confidence == IF llm.has_keys THEN llm.confidence ELSE 0
             recommendation ==
                 IF llm.has_keys THEN llm.recommendation ELSE "search_web"
         IN  IF ~in_unit_range(confidence) THEN evaluation_error("validation", 1)
             ELSE _create_evaluation_report(useful, <<"judge">>, confidence,
                                            recommendation, 1)

\* A plausible slip: the judge is asked about an empty retrieval too.
evaluate_retrieval_always_judges(docs, llm) ==
    IF ~docs.json THEN evaluation_error("json", 0) ELSE judge_report(llm)

\* A plausible slip: a failure of the judge leaves the call.
evaluate_retrieval_uncaught(docs, llm) ==
    IF ~docs.json THEN evaluation_error("json", 0)
    ELSE IF games_of(docs) = <<>>
         THEN _create_evaluation_report(FALSE,
                  <<"No games were retrieved from the database">>, 0, "search_web", 0)
    ELSE IF llm.kind = "raises" THEN [evaluation_error("llm", 1) EXCEPT !.raised = TRUE]
    ELSE judge_report(llm)

\* EvaluateRetrievalTool.__call__
evaluate_retrieval(docs, llm) ==
    IF ~docs.json THEN evaluation_error("json", 0)
    ELSE IF games_of(docs) = <<>>
         THEN _create_evaluation_report(FALSE,
                  <<"No games were retrieved from the database">>, 0, "search_web", 0)
    ELSE judge_report(llm)

\* The replies of the search client: it raises, or returns a dict with
\* "results" (each with a score) or without.
WebScores == {0, 90, 150}
WebHits == {[title |-> t, score |-> s] : t \in {"t1", "t2"}, s \in WebScores}
SearchReplies ==
    {[kind |-> "raises", has_results |-> FALSE, results |-> <<>>],
     [kind |-> "returns", has_results |-> FALSE, results |-> <<>>]}
        \cup {[kind |-> "returns", has_results |-> TRUE, results |-> r] :
                 r \in UNION {[1..n -> WebHits] : n \in 0..MaxWebResults}}

\* The envelope of the except branch (game_web_search.py 83-91).
web_search_error(question, e) ==
    [raised |-> FALSE,
     keys |-> {"error", "question", "results", "total_results", "search_method"},
     question |-> question, results |-> <<>>, total_results |-> 0,
     search_method |-> "web_search", error |-> <<"Error performing web search: ", e>>]

\* GameWebSearchTool.__call__: WebSearchResult(...) validates each score.
game_web_search(question, reply) ==
    IF reply.kind = "raises" THEN web_search_error(question, "client")
    ELSE IF \E i \in 1..Len(reply.results) : ~in_unit_range(reply.results[i].score)
         THEN web_search_error(question, "validation")
    ELSE [raised |-> FALSE,
          keys |-> {"question", "enhanced_query", "results", "answer",
                    "total_results", "search_method"},
          question |-> question,
          results |-> [i \in 1..Len(reply.results) |->
                          [title |-> reply.results[i].title,
                           relevance_score |-> reply.results[i].score]],
          total_results |-> Len(reply.results),
          search_method |-> "web_search", error |-> <<>>]

\* retrieve_game_tool(query)
RetrieveGame(reply) ==
    /\ last' = [op |-> "retrieve_game", reply |-> reply,
                ret |-> retrieve_game("q", reply)]
    /\ UNCHANGED <<clock, machinevars, othervars>>

\* evaluate_retrieval_tool(question, retrieved_docs); a reply of the judge
\* only where the judge is asked.
EvaluateRetrieval(docs, llm) ==
    /\ (llm.kind = "unused") = (~docs.json \/ games_of(docs) = <<>>)
    /\ last' = [op |-> "evaluate_retrieval", docs |-> docs, llm |-> llm,
                ret |-> evaluate_retrieval(docs, llm)]
    /\ UNCHANGED <<clock, machinevars, othervars>>

\* web_search_tool(question)
GameWebSearch(reply) ==
    /\ last' = [op |-> "game_web_search", reply |-> reply,
                ret |-> game_web_search("q", reply)]
    /\ UNCHANGED <<clock, machinevars, othervars>>

GatewayNext ==
    \/ \E reply \in BackendReplies : RetrieveGame(reply)
    \/ \E docs \in RetrievedDocs, llm \in JudgeReplies \cup {NoJudge} :
           EvaluateRetrieval(docs, llm)
    \/ \E reply \in SearchReplies : GameWebSearch(reply)

GatewayInit ==
    /\ Init
    /\ state_json = NoFile

GatewaySpec == GatewayInit /\ [][GatewayNext]_vars

(***************************************************************************)
(* Two processes on one persist directory.  Each has its own state machine *)
(* and its own memory, loaded when it is constructed; the files and the    *)
(* collection are shared.  A file is written whole by one open, json.dump  *)
(* and close; add_document reads the index file and writes it back later   *)
(* in the same call, and another process may run between the two.          *)
(***************************************************************************)
MaxOps == 2
Procs == {1, 2}
NoContent == [head |-> <<>>, tail |-> ""]
NoMetadata == [url |-> <<>>, title |-> <<>>]

\* UdaPlayAgent.__init__ in a process: the state machine bound to
\* state.json and loaded from it when it exists, the memory loaded from
\* the memory file.
new_process(file, mem_file, t, ops) ==
    [pc |-> "idle", ops |-> ops,
     state_machine |-> IF file.kind # "absent"
                       THEN load_from_file(AgentStateMachine(t), file, "ok", t)
                       ELSE [AgentStateMachine(t) EXCEPT !.persist_file = TRUE],
     memory |-> _load_memory(mem_file, "ok"),
     seen |-> {}, content |-> NoContent]

\* A plausible slip: the index file is read again when it is written.
index_read_again(st, seen) == st

\* The store as an add_document call sees it after line 317: the index is
\* the local `seen`, whatever the file holds by now.
index_as_read(st, seen) == [st EXCEPT !.ingested_index = IndexFile(seen)]

CrossInit ==
    /\ clock = 0
    /\ state_machine = AgentStateMachine(0)
    /\ state_json = NoFile
    /\ persisted = NoSnapshot
    /\ collection = {}
    /\ ingested_index = NoIndex
    /\ documents = {}
    /\ conversation_history = <<>>
    /\ memory = NoMemory
    /\ memory_json = NoMemoryFile
    /\ procs = [p \in Procs |-> new_process(NoFile, NoMemoryFile, 0, 0)]
    /\ last = [op |-> "init", p |-> 0, ret |-> TRUE]

\* Whether process p may begin another call.
Ready(p) == procs[p].pc = "idle" /\ procs[p].ops < MaxOps

\* Time passes.
CrossTick ==
    /\ clock < MaxClock
    /\ clock' = clock + 1
    /\ UNCHANGED <<machinevars, othervars, last>>

\* Process p is started again: its objects are constructed from the files.
Restart(p) ==
    /\ Ready(p)
    /\ procs' = [procs EXCEPT ![p] = new_process(state_json, memory_json, clock, @.ops + 1)]
    /\ last' = [op |-> "new", p |-> p, ret |-> TRUE]
    /\ UNCHANGED <<clock, machinevars, storevars, conversation_history, memoryvars>>

\* add_document in process p, lines 304-320: the key, the index file read
\* into `seen`, and the early return for a key that is in it.
AddRead(p, content) ==
    LET key == dup_key(content, NoMetadata)
        seen == seen_of(ingested_index, "ok")
    IN  /\ Ready(p)
        /\ IF key \in Keys(seen)
           THEN /\ procs' = [procs EXCEPT ![p].ops = @ + 1]
                /\ last' = [op |-> "add_document", p |-> p, ret |-> FALSE, key |-> key,
                            seen |-> seen, pre |-> ingested_index]
           ELSE /\ procs' = [procs EXCEPT ![p].ops = @ + 1, ![p].pc = "adding",
                                          ![p].seen = seen, ![p].content = content]
                /\ last' = [op |-> "add_document_read", p |-> p, ret |-> TRUE]
        /\ UNCHANGED <<clock, machinevars, storevars, conversation_history, memoryvars>>

\* add_document in process p, lines 322-348: the collection's add, the
\* index file written from `seen` and the new key, the backup.
AddWrite(p) ==
    LET pr == procs[p]
        st == add_document(index_as_read(Store, pr.seen), pr.content, NoMetadata,
                           NoDocId, clock, EnvOK)
    IN  /\ pr.pc = "adding"
        /\ collection' = st.collection
        /\ ingested_index' = st.ingested_index
        /\ documents' = st.documents
        /\ procs' = [procs EXCEPT ![p].pc = "idle", ![p].seen = {},
                                  ![p].content = NoContent]
        /\ last' = [op |-> "add_document", p |-> p, ret |-> st.ret,
                    key |-> dup_key(pr.content, NoMetadata),
                    seen |-> pr.seen, pre |-> ingested_index]
        /\ UNCHANGED <<clock, machinevars, conversation_history, memoryvars>>

\* memory.learn_from_conversation in process p: its own memory, then the
\* memory file written from it.
Learn(p) ==
    LET mem == learn_from_conversation(procs[p].memory, Question(p), Answer(p),
                                       "default", clock)
    IN  /\ Ready(p)
        /\ procs' = [procs EXCEPT ![p].ops = @ + 1, ![p].memory = mem]
        /\ memory_json' = _save_memory(mem, memory_json, "ok", clock)
        /\ last' = [op |-> "learn_from_conversation", p |-> p, ret |-> TRUE,
                    pre |-> memory_json, loaded |-> procs[p].memory]
        /\ UNCHANGED <<clock, machinevars, storevars, conversation_history, memory>>

\* state_machine.transition(target) in process p: its own machine, then
\* state.json written from it when the transition is allowed.
Move(p, target) ==
    LET m == procs[p].state_machine
        ok == transition_result(m, target)
        m1 == transition(m, target, clock)
    IN  /\ Ready(p)
        /\ procs' = [procs EXCEPT ![p].ops = @ + 1, ![p].state_machine = m1]
        /\ state_json' = IF ok THEN _persist(m1, state_json, "ok") ELSE state_json
        /\ last' = [op |-> "transition", p |-> p, ret |-> ok,
                    pre |-> state_json, allowed |-> target \in _allowed(m.state)]
        /\ UNCHANGED <<clock, state_machine, persisted, storevars, conversation_history,
                       memoryvars>>

CrossNext ==
    \/ CrossTick
    \/ \E p \in Procs : Restart(p)
    \/ \E p \in Procs, content \in FaultContents : AddRead(p, content)
    \/ \E p \in Procs : AddWrite(p)
    \/ \E p \in Procs : Learn(p)
    \/ \E p \in Procs, target \in AgentState : Move(p, target)

CrossSpec == CrossInit /\ [][CrossNext]_vars

(***************************************************************************)
(* The state machine's contracts.                                          *)
(***************************************************************************)
\* The transition table as the specification states it.
StatedTargets(s) ==
    CASE s = IDLE -> {RETRIEVING}
      [] s = RETRIEVING -> {EVALUATING}
      [] s = EVALUATING -> {WEB_SEARCH, ANSWERING}
      [] s = WEB_SEARCH -> {ANSWERING}
      [] s = ANSWERING -> {IDLE}

FiveValues == {"idle", "retrieving", "evaluating", "web_search", "answering"}

\* C1: transition(T) from state S returns true iff T is in the stated
\* allowed set of S; on success get_state() is T's value and the bound
\* persistence file holds T; on failure the state is unchanged.
C1_TransitionIffAllowed ==
    last.op = "transition" =>
        /\ last.ret = (last.target \in StatedTargets(last.pre.state))
        /\ last.ret =>
              /\ get_state(state_machine) = value(last.target)
              /\ state_machine.persist_file =>
                    /\ state_json.kind = "json"
                    /\ state_json.state = value(last.target)
        /\ ~last.ret => state_machine.state = last.pre.state

\* A transition into WebSearch succeeded on a machine bound to its file.
C1_Witness ==
    /\ last.op = "transition"
    /\ last.ret
    /\ last.target = WEB_SEARCH
    /\ last.pre.state = EVALUATING
    /\ state_machine.persist_file
    /\ last.pre_file.state # "web_search"

\* C8: a rejected transition(T) returns false and leaves the state,
\* last_transition_time and the persistence file as they were before.
C8_RejectedTransitionChangesNothing ==
    (last.op = "transition" /\ last.target \notin StatedTargets(last.pre.state)) =>
        /\ last.ret = FALSE
        /\ state_machine.state = last.pre.state
        /\ state_machine.last_transition_time = last.pre.last_transition_time
        /\ state_machine.persist_file = last.pre.persist_file
        /\ state_json = last.pre_file

\* A transition was rejected at a later time than the last accepted one, on
\* a machine bound to a file that exists.
C8_Witness ==
    /\ last.op = "transition"
    /\ ~last.ret
    /\ last.pre.state = EVALUATING
    /\ last.pre.persist_file
    /\ last.pre_file.kind = "json"
    /\ last.pre.last_transition_time # now(clock)

\* C9: a new agent on the same directory, loading the file the previous
\* instance wrote, has the state and the last_transition_time the previous
\* instance had at its last write (transition, reset or persist).
C9_RoundTrip ==
    (last.op = "new" /\ state_machine.persist_file /\ last.pre_persisted.valid) =>
        /\ state_machine.state = last.pre_persisted.state
        /\ state_machine.last_transition_time = last.pre_persisted.time

\* A new agent loaded a file whose state is not Idle and whose timestamp
\* has a sub-second part, at a later time.
C9_Witness ==
    /\ last.op = "new"
    /\ state_machine.persist_file
    /\ last.pre_persisted.valid
    /\ last.pre_persisted.state = WEB_SEARCH
    /\ last.pre_persisted.time.usec # 0
    /\ last.pre_persisted.time # now(clock)

\* What the specification calls a malformed or unreadable file: invalid
\* JSON, an unknown state string, missing fields, an I/O error.
Malformed(f, r) ==
    \/ f.kind \in {"invalid_json", "not_object"}
    \/ f.kind = "json" /\ (f.state \notin FiveValues \/ f.state = "" \/ f.ts = <<>>)
    \/ f.kind # "absent" /\ r # "ok"

\* C10 as stated: a malformed or unreadable file leaves the new machine in Idle.
C10_MalformedLeavesIdle ==
    (last.op = "new" /\ state_machine.persist_file /\ Malformed(last.pre_file, last.w)) =>
        state_machine.state = IDLE

\* The file gives no state: it does not parse, cannot be read, or its
\* state string is missing or unknown.
NoUsableState(f, r) ==
    f.kind # "json" \/ r # "ok" \/ f.state \notin FiveValues

\* C10, amended: loading never fails; the machine is left in Idle when the
\* file gives no usable state, and takes the file's state when the state
\* string is valid, also when the timestamp is missing or invalid.
C10_LoadNeverFails ==
    (last.op = "new" /\ state_machine.persist_file) =>
        /\ state_machine.state \in AgentState
        /\ NoUsableState(last.pre_file, last.w) => state_machine.state = IDLE
        /\ ~NoUsableState(last.pre_file, last.w) =>
              value(state_machine.state) = last.pre_file.state

\* A new agent loaded a file with a valid state and no timestamp.
C10_Witness ==
    /\ last.op = "new"
    /\ last.pre_file = JsonFile("retrieving", <<>>)
    /\ last.w = "ok"
    /\ state_machine.state = RETRIEVING

(***************************************************************************)
(* The document store's contracts.                                         *)
(***************************************************************************)
\* The call that has just returned is an add_document call.
AddDocumentReturns == last'.op = "add_document" /\ last' # last

\* The call before it was a successful add_document of the same url, title
\* and content.
SameDocumentAgain ==
    /\ last.op = "add_document"
    /\ last.ret
    /\ last.metadata = last'.metadata
    /\ last.content = last'.content
    /\ last.doc_id = last'.doc_id

\* C7: the first add_document of a (url, title) returns true, adds exactly
\* one entry to the dedup index and writes exactly one backup file; a
\* second call with the same url, title and content returns false and
\* leaves the collection, the index and the backups unchanged.
C7_AddDocumentIdempotent ==
    [][AddDocumentReturns =>
        LET key == dup_key(last'.content, last'.metadata)
            before == last'.pre.ingested_index.entries
            first == key \notin Keys(before)
        IN  /\ first =>
                /\ last'.ret
                /\ ingested_index'.kind = "json"
                /\ before \subseteq ingested_index'.entries
                /\ Keys(ingested_index'.entries) = Keys(before) \cup {key}
                /\ Cardinality(ingested_index'.entries) = Cardinality(before) + 1
                /\ \E b \in documents' :
                      /\ b.kind = "json"
                      /\ b.content = last'.content
                      /\ b.id \in {e.id : e \in ingested_index'.entries \ before}
                      /\ {x \in documents' : x.id # b.id} = {x \in documents : x.id # b.id}
            /\ SameDocumentAgain =>
                /\ ~last'.ret
                /\ collection' = collection
                /\ ingested_index' = ingested_index
                /\ documents' = documents
    ]_vars

\* A document the store holds, added under a key of its url and title,
\* was added again and rejected.
C7_Witness ==
    /\ last.op = "add_document"
    /\ ~last.ret
    /\ last.metadata.url # <<>>
    /\ \E e \in last.pre.ingested_index.entries :
          /\ e.key = dup_key(last.content, last.metadata)
          /\ \E d \in last.pre.collection :
                d.id = e.id /\ d.content = last.content /\ d.url = last.metadata.url
          /\ \E b \in last.pre.documents : b.id = e.id /\ b.content = last.content

(***************************************************************************)
(* The pipeline's contracts.                                               *)
(***************************************************************************)
\* The call that has just returned is a process_query call.
ProcessQueryReturned == last.op = "process_query"

\* The states in which process_query made the call named c.
StatesAt(c) == {last.trace[i].state : i \in {j \in DOMAIN last.trace : last.trace[j].call = c}}

\* The number of calls named c that process_query made.
CallsOf(c) == Cardinality({i \in DOMAIN last.trace : last.trace[i].call = c})

\* A stage of the call raised: a gateway, the text generation, or the
\* construction of the response from a confidence outside [0, 1].
StageRaised ==
    \/ last.inp.retrieval.kind = "raises"
    \/ last.inp.evaluation.kind = "raises"
    \/ last.inp.web.kind = "raises"
    \/ last.inp.llm.kind = "raises"
    \/ /\ last.inp.llm.kind = "returns"
       /\ last.inp.llm.content # ""
       /\ last.inp.llm.marker.kind = "number"
       /\ last.inp.llm.marker.n \notin 0..100

\* C2: during a process_query call the machine is in Retrieving when the
\* retrieval gateway is called, in Evaluating when the evaluation gateway
\* is called, in WebSearch when the web-search gateway is called, then in
\* Answering, and in Idle when the call returns.
C2_PipelineOrder ==
    ProcessQueryReturned =>
        /\ StatesAt("retrieval") \subseteq {RETRIEVING}
        /\ StatesAt("evaluation") \subseteq {EVALUATING}
        /\ StatesAt("web_search") \subseteq {WEB_SEARCH}
        /\ StatesAt("synthesis") \subseteq {ANSWERING}
        /\ state_machine.state = IDLE

\* C3: when process_query returns, with a response or with an error
\* response, the machine is in Idle and the state file holds idle, whatever
\* state the machine was in when the call began.
C3_IdleOnReturn ==
    ProcessQueryReturned =>
        /\ state_machine.state = IDLE
        /\ state_machine.persist_file =>
              state_json.kind = "json" /\ state_json.state = value(IDLE)

\* C4: process_query never raises; if a stage raised, the response has
\* confidence 0, no sources, search method "error" and the error's text
\* as its answer.
C4_NeverRaises ==
    ProcessQueryReturned =>
        /\ ~last.raised
        /\ StageRaised =>
              /\ last.response.confidence = 0
              /\ last.response.sources = <<>>
              /\ last.response.search_method = "error"
              /\ last.response.answer.kind = "error"
              /\ last.response.answer.text
                    \in {"retrieval", "evaluation", "web_search", "synthesis", "validation"}

\* The generated answer carried a confidence above 1, so that the response
\* could not be constructed, and the call returned the error response.
C4_Witness ==
    /\ ProcessQueryReturned
    /\ last.inp.llm.kind = "returns"
    /\ last.inp.llm.marker.n > 100
    /\ last.response.search_method = "error"
    /\ last.response.answer = [kind |-> "error", text |-> "validation"]

\* C5: the web-search gateway is called iff the evaluation report has
\* useful = false or confidence < 0.7: with useful = true and confidence
\* >= 0.7 no call occurs, otherwise exactly one.  A report without the two
\* fields counts as not useful.
C5_WebFallbackRule ==
    (/\ ProcessQueryReturned
     /\ last.inp.retrieval.kind = "returns"
     /\ last.inp.evaluation.kind = "returns") =>
        LET e == last.inp.evaluation
        IN  IF e.keys /\ e.useful /\ e.confidence >= 70
            THEN CallsOf("web_search") = 0
            ELSE CallsOf("web_search") = 1

\* A useful report with confidence exactly 0.7 led to no web search, and
\* the answer came from the local entries alone.
C5_Witness ==
    /\ ProcessQueryReturned
    /\ last.inp.evaluation.kind = "returns"
    /\ last.inp.evaluation.keys
    /\ last.inp.evaluation.useful
    /\ last.inp.evaluation.confidence = 70
    /\ CallsOf("web_search") = 0
    /\ last.response.search_method = "vector_db"

\* C6: the search method of a response is "vector_db" when only local
\* entries contributed, "web_search" when only web results contributed,
\* "combined" exactly when both did, and "error" only when a stage raised.
C6_SearchMethodBySources ==
    ProcessQueryReturned =>
        LET local == last.inp.retrieval.games # <<>>
            web == last.inp.web.results # <<>>
            method == last.response.search_method
        IN  /\ method = "error" => StageRaised
            /\ method # "error" =>
                  /\ (local /\ ~web) => method = "vector_db"
                  /\ (~local /\ web) => method = "web_search"
                  /\ (method = "combined") = (local /\ web)

(***************************************************************************)
(* The state machine's remaining contracts.                                *)
(***************************************************************************)
\* C11: reset() in any of the five states sets the state to Idle, sets the
\* transition timestamp to the time of the call and persists, whether or
\* not Idle is an allowed target of the state it was called in.
C11_ResetForcesIdle ==
    last.op = "reset" =>
        /\ state_machine.state = IDLE
        /\ state_machine.last_transition_time = now(last.at)
        /\ state_machine.persist_file =>
              state_json = JsonFile(value(IDLE), isoformat(now(last.at)))

\* reset() was called in Evaluating, from which Idle is no allowed target,
\* at a time later than the last transition, on a machine bound to a file
\* that held another state.
C11_Witness ==
    /\ last.op = "reset"
    /\ last.pre.state = EVALUATING
    /\ IDLE \notin StatedTargets(EVALUATING)
    /\ last.pre.last_transition_time # now(last.at)
    /\ state_machine.persist_file
    /\ last.pre_file.state = "evaluating"
    /\ state_json.state = "idle"

\* C12: can_transition(T) returns what transition(T) would return from the
\* same state, and leaves the state, the timestamp and the persisted file
\* as they were.
C12_CanTransitionMirrorsGuard ==
    last.op = "can_transition" =>
        /\ last.ret = transition_result(last.pre, last.target)
        /\ last.ret = (last.target \in StatedTargets(last.pre.state))
        /\ state_machine = last.pre
        /\ state_json = last.pre_file
        /\ persisted = last.pre_persisted

\* can_transition(Answering) answered false in Retrieving, on a machine
\* bound to a file that has been written.
C12_Witness ==
    /\ last.op = "can_transition"
    /\ last.target = ANSWERING
    /\ ~last.ret
    /\ last.pre.state = RETRIEVING
    /\ state_machine.persist_file
    /\ state_json.kind = "json"

(***************************************************************************)
(* The pipeline's order and side effects.                                  *)
(***************************************************************************)
SideEffectCalls ==
    {"add_document", "learn_from_web_search", "learn_from_conversation", "persist"}

\* The place of a call in the stated order.
Rank(c) ==
    CASE c = "retrieval" -> 1
      [] c = "evaluation" -> 2
      [] c = "web_search" -> 3
      [] c = "synthesis" -> 4
      [] OTHER -> 5

\* The calls of the trace are in the stated order, each stage at most once,
\* and the side effects come after a synthesis call.
InStatedOrder ==
    /\ \A i, j \in DOMAIN last.trace :
          i < j => /\ Rank(last.trace[i].call) <= Rank(last.trace[j].call)
                   /\ Rank(last.trace[i].call) < 5 =>
                         Rank(last.trace[i].call) < Rank(last.trace[j].call)
    /\ \A j \in DOMAIN last.trace :
          last.trace[j].call \in SideEffectCalls =>
              \E i \in 1..(j - 1) : last.trace[i].call = "synthesis"

FactNumbers(list) == [i \in DOMAIN list |-> list[i].content.head[1]]
TalkNumbers(list) == [i \in DOMAIN list |-> list[i].user_query.id]

\* The list holds the numbers up to newest, the oldest dropped beyond cap.
NewestKept(numbers, newest, cap) ==
    /\ Len(numbers) = (IF newest > cap THEN cap ELSE newest)
    /\ \A i \in DOMAIN numbers : numbers[i] = newest - Len(numbers) + i

\* C15: after any sequence of learn_from_web_search and
\* learn_from_conversation calls no user has more than 50 facts, the
\* conversation context has at most 50 items and the interaction log at
\* most 100; what is kept are the newest entries, in their order.
C15_MemoryCaps ==
    /\ \A u \in DOMAIN memory.facts : Len(memory.facts[u]) <= 50
    /\ Len(memory.conversation_context) <= 50
    /\ Len(memory.successful_interactions) <= 100
    /\ (last.op = "learn_from_web_search" /\ last.kind = "fresh") => NewestFact = last.n
    /\ last.op = "learn_from_conversation" => NewestTalk = last.n
    /\ NewestKept(FactNumbers(StoredFacts), NewestFact, 50)
    /\ NewestKept(TalkNumbers(memory.conversation_context), NewestTalk, 50)
    /\ NewestKept(TalkNumbers(memory.successful_interactions), NewestTalk, 100)

\* 60 distinct facts and 101 questions went in: facts 11 to 60 are left,
\* with the last 50 context items and the last 100 interactions.
C15_Witness ==
    /\ NewestFact = 60
    /\ Len(StoredFacts) = 50
    /\ OldestFact = 11
    /\ NewestTalk = 101
    /\ Len(memory.successful_interactions) = 100
    /\ memory.successful_interactions[1].user_query.id = 2
    /\ Len(memory.conversation_context) = 50

\* The step is a memory-store call that reaches the rewrite of the file.
MutatingMemoryCall ==
    \/ last'.op = "learn_from_conversation"
    \/ last'.op = "learn_from_web_search" /\ last'.kind # "empty"

\* C20: a mutating memory-store call ends with a rewrite of the whole
\* file, after which the file holds the in-memory facts, preferences,
\* context, patterns and interaction log; when the write fails the call
\* still returns and the in-memory changes are kept.
C20_WholeFileRewrite ==
    [][MutatingMemoryCall =>
        /\ last'.w = "ok" =>
              /\ memory_json'.kind = "json"
              /\ memory_json'.data = memory'
        /\ last'.w # "ok" => memory_json' \in {memory_json, InvalidMemoryFile}
        /\ last'.op = "learn_from_conversation" =>
              /\ NewestTalk' = last'.n
              /\ memory'.conversation_context # <<>>
              /\ "default" \in DOMAIN memory'.user_preferences
        /\ last'.op = "learn_from_web_search" =>
              /\ SearchesLearned' = SearchesLearned + 1
              /\ last'.kind = "fresh" => NewestFact' = last'.n
    ]_vars

\* A conversation was learned while the write of the file failed half way:
\* the file no longer parses, the memory holds the new interaction.
C20_Witness ==
    /\ last.op = "learn_from_conversation"
    /\ last.w = "torn"
    /\ memory_json = InvalidMemoryFile
    /\ NewestTalk = last.n
    /\ StoredFacts # <<>>

(***************************************************************************)
(* The gateways' contracts.                                                *)
(***************************************************************************)
\* The evaluation met a failure: retrieved_docs that is no JSON, a judge
\* that raises, a content that is no JSON, a report that does not validate.
EvaluationFailed ==
    \/ ~last.docs.json
    \/ /\ games_of(last.docs) # <<>>
       /\ \/ last.llm.kind = "raises"
          \/ ~last.llm.json
          \/ last.llm.has_keys /\ ~in_unit_range(last.llm.confidence)

\* The web search met a failure: a client that raises, a result that does
\* not validate.
WebSearchFailed ==
    \/ last.reply.kind = "raises"
    \/ \E i \in 1..Len(last.reply.results) : ~in_unit_range(last.reply.results[i].score)

\* C16: EvaluateRetrievalTool called with a retrieval result that has no
\* entries (its "games" empty or missing) returns useful = false,
\* confidence 0.0 and recommendation "search_web", and has made no
\* text-generation call.
C16_EmptyRetrievalNotJudged ==
    (last.op = "evaluate_retrieval" /\ last.docs.json /\ games_of(last.docs) = <<>>) =>
        /\ ~last.ret.raised
        /\ last.ret.useful = FALSE
        /\ last.ret.confidence = 0
        /\ last.ret.recommendation = "search_web"
        /\ last.ret.llm_calls = 0

\* The evaluation has been given the envelope of an empty search and has
\* answered without the judge.
C16_Witness ==
    /\ last.op = "evaluate_retrieval"
    /\ last.docs = AsDocs(retrieval_empty("q"))
    /\ last.ret.llm_calls = 0
    /\ last.ret.recommendation = "search_web"

\* C17: no gateway call raises to its caller, and a failure behind the
\* gateway gives the gateway's envelope: the retrieval zero results with
\* confidence 0.0; the evaluation useful = false, confidence 0.0,
\* recommendation "search_web" and the error text in the description; the
\* web search an empty result list, total_results 0 and an error string.
C17_FailuresBecomeEnvelopes ==
    /\ last.op = "retrieve_game" =>
          /\ ~last.ret.raised
          /\ (last.reply.kind = "raises" \/ "error" \in last.ret.keys) =>
                /\ last.ret.games = <<>>
                /\ last.ret.total_results = 0
                /\ last.ret.confidence_score = 0
    /\ last.op = "evaluate_retrieval" =>
          /\ ~last.ret.raised
          /\ EvaluationFailed =>
                /\ last.ret.useful = FALSE
                /\ last.ret.confidence = 0
                /\ last.ret.recommendation = "search_web"
                /\ last.ret.description[1] = "Error during evaluation: "
    /\ last.op = "game_web_search" =>
          /\ ~last.ret.raised
          /\ WebSearchFailed =>
                /\ last.ret.results = <<>>
                /\ last.ret.total_results = 0
                /\ "error" \in last.ret.keys
                /\ last.ret.error # <<>>

\* The judge has raised and the evaluation has returned its error report.
C17_Witness ==
    /\ last.op = "evaluate_retrieval"
    /\ last.llm.kind = "raises"
    /\ last.ret.description = <<"Error during evaluation: ", "llm">>
    /\ ~last.ret.raised

\* C18: for a non-empty backend result the retrieval gateway returns an
\* envelope with one entry per hit, total_results their number, method
\* "vector_db" and as confidence the mean similarity clamped to [0,1]; for
\* an empty one, zero entries, confidence 0.0 and a message, never an error.
C18_RetrievalEnvelope ==
    (last.op = "retrieve_game" /\ last.reply.kind = "returns") =>
        /\ "error" \notin last.ret.keys
        /\ last.ret.search_method = "vector_db"
        /\ Len(last.ret.games) = Len(last.reply.hits)
        /\ last.ret.total_results = Len(last.reply.hits)
        /\ IF last.reply.hits = <<>>
           THEN last.ret.confidence_score = 0 /\ last.ret.message # ""
           ELSE last.ret.confidence_score
                    = clamp(mean_similarity(search_games(last.reply)))

\* C19: a confidence marker the generated text ends in gives the response
\* its confidence, clamped into [0,1], and the query is answered.
C19_ConfidenceClamped ==
    (/\ last.op = "process_query"
     /\ last.inp.llm.kind = "returns"
     /\ last.inp.llm.content # ""
     /\ last.inp.llm.marker.kind = "number") =>
        /\ last.response.answer.kind = "answer"
        /\ last.response.confidence = clamp(last.inp.llm.marker.n)

(***************************************************************************)
(* The shape of the transition graph.                                      *)
(***************************************************************************)
\* C21: a walk of successful transitions from Idle visits no state twice
\* before it is back in Idle, is back after exactly 4 transitions, or
\* exactly 5 when it went through WebSearch, and never stands in a state
\* without an allowed target.
C21_LinearCycle ==
    last.op \in {"init", "transition", "reset"} =>
        /\ last.path[1] = IDLE
        /\ last.path[Len(last.path)] = state_machine.state
        /\ \A i, j \in DOMAIN last.path : i # j => last.path[i] # last.path[j]
        /\ last.done # <<>> =>
              Len(last.done)
                  = IF \E i \in DOMAIN last.done : last.done[i] = WEB_SEARCH
                    THEN 5 ELSE 4
        /\ _allowed(state_machine.state) # {}
        /\ \A s \in AgentState : _allowed(s) # {}

\* A walk through WebSearch has just come back to Idle, after 5 transitions.
C21_Witness ==
    /\ last.op = "transition"
    /\ last.ret
    /\ state_machine.state = IDLE
    /\ last.done = <<IDLE, RETRIEVING, EVALUATING, WEB_SEARCH, ANSWERING>>

(***************************************************************************)
(* The document store's contracts.                                         *)
(***************************************************************************)
\* A document has a url or a title (blanks apart).
HasUrlOrTitle(d) == strip(d.url) # <<>> \/ strip(d.title) # <<>>

\* The document of the add_document call that returns, and the one of
\* the call before it.
AddedDocument ==
    [content |-> last'.content, url |-> last'.metadata.url, title |-> last'.metadata.title]
StoredDocument ==
    [content |-> last.content, url |-> last.metadata.url, title |-> last.metadata.title]

\* The call before it was add_document on an empty store, and added its
\* document.
OneDocumentStored ==
    /\ last.op = "add_document"
    /\ last.ret
    /\ last.pre.ingested_index.entries = {}

\* C22: a document with a url or a title is a duplicate of a stored one
\* with the same url and title, whatever their contents; a document with
\* neither is a duplicate of a stored one with neither iff their first 200
\* content characters are equal.  A duplicate is what add_document
\* rejects.
C22_DedupKey ==
    [][(AddDocumentReturns /\ OneDocumentStored) =>
        /\ (/\ HasUrlOrTitle(AddedDocument)
            /\ strip(StoredDocument.url) = strip(AddedDocument.url)
            /\ strip(StoredDocument.title) = strip(AddedDocument.title)) => ~last'.ret
        /\ (~HasUrlOrTitle(AddedDocument) /\ ~HasUrlOrTitle(StoredDocument)) =>
               (~last'.ret <=> StoredDocument.content.head = AddedDocument.content.head)
    ]_vars

\* A document was rejected as the duplicate of a stored one with its url
\* and title and another content.
C22_Witness ==
    /\ last.op = "add_document"
    /\ ~last.ret
    /\ strip(last.metadata.url) # <<>>
    /\ Cardinality(last.pre.ingested_index.entries) = 1
    /\ \E d \in last.pre.collection :
          /\ d.url = last.metadata.url /\ d.title = last.metadata.title
          /\ d.content.head # last.content.head

\* The call before it was add_document of the same document, returned true
\* and met a failing write of the index file or of the backup file.
AddedWithFailedWrite ==
    /\ last.op = "add_document"
    /\ last.ret
    /\ last.env.wi # "ok" \/ last.env.wb # "ok"
    /\ last.content = last'.content
    /\ last.metadata = last'.metadata

\* C23: add_document returns a boolean also when a file write inside it
\* fails, and the document it has added is a duplicate for the rest of the
\* process: the next add_document of the same document (its reads and
\* writes working) returns false and stores no second copy.
C23_WriteFailureKeepsDedup ==
    [][AddDocumentReturns =>
        /\ last'.ret \in BOOLEAN
        /\ (AddedWithFailedWrite /\ last'.env = EnvOK) =>
              /\ ~last'.ret
              /\ collection' = collection
    ]_vars

\* C28: the keys of the index file only grow: an add_document call whose
\* writes work, whether or not it could read the index file, leaves every
\* key the file held in the file.
C28_IndexOnlyGrows ==
    [][(AddDocumentReturns /\ last'.env.wi = "ok" /\ last'.env.wb = "ok") =>
        Keys(ingested_index.entries) \subseteq Keys(ingested_index'.entries)
    ]_vars

\* C29: the documents add_document has accepted under different keys have
\* different ids: every index entry has an id of its own, with its own
\* entry in the collection and its own backup file.
C29_DistinctDocIds ==
    /\ \A e1, e2 \in ingested_index.entries : e1.key # e2.key => e1.id # e2.id
    /\ \A e \in ingested_index.entries :
          /\ \E d \in collection : d.id = e.id /\ dup_key(d.content, d) = e.key
          /\ \E b \in documents : b.id = e.id /\ dup_key(b.content, b) = e.key

(***************************************************************************)
(* The memory store's contracts.                                           *)
(***************************************************************************)
\* C24: no two facts of a user have the same content.  A result whose
\* content, cut to 300 characters, is that of a stored fact replaces that
\* fact where it stands, the other facts and the length of the list as
\* they were; one with a new content is appended; one too short to hold a
\* fact changes nothing.
C24_FactUpsert ==
    last.op = "store_fact" =>
        LET old == last.pre
            new == StoredFacts
            c == slice300(last.result.content)
        IN  /\ \A i, j \in DOMAIN new : i # j => new[i].content # new[j].content
            /\ IF len(last.result.content) < MinFactLength THEN new = old
               ELSE IF \E i \in DOMAIN old : old[i].content = c
               THEN /\ Len(new) = Len(old)
                    /\ \A i \in DOMAIN old :
                          IF old[i].content = c
                          THEN /\ new[i].content = c
                               /\ new[i].source = last.result.metadata.url
                          ELSE new[i] = old[i]
               ELSE /\ Len(new) = Len(old) + 1
                    /\ SubSeq(new, 1, Len(old)) = old
                    /\ new[Len(new)].content = c

\* The first of two stored facts was found again, in a longer cut, at
\* another url and at a later time, and was replaced where it stood.
C24_Witness ==
    /\ last.op = "store_fact"
    /\ Len(last.pre) = 2
    /\ Len(StoredFacts) = 2
    /\ last.result.content.tail = "xy"
    /\ last.pre[1].content = slice300(last.result.content)
    /\ last.pre[1].source # last.result.metadata.url
    /\ last.pre[1].timestamp # StoredFacts[1].timestamp
    /\ StoredFacts[1].source = last.result.metadata.url
    /\ StoredFacts[2] = last.pre[2]

\* The lists of a preference profile.
PreferenceLists == {"genres", "platforms", "publishers", "interests"}

\* C25: a learning call leaves every genre, platform, publisher and
\* interest that was recorded for a user recorded for that user, and no
\* list of a profile holds a value twice.
C25_PreferencesOnlyGrow ==
    last.op \in {"learn_from_web_search", "learn_from_conversation"} =>
        /\ \A u \in DOMAIN last.pre : u \in DOMAIN memory.user_preferences
        /\ \A u \in DOMAIN last.pre : \A l \in PreferenceLists :
              \A i \in DOMAIN last.pre[u][l] :
                  Contains(memory.user_preferences[u][l], last.pre[u][l][i])
        /\ \A u \in DOMAIN memory.user_preferences : \A l \in PreferenceLists :
              \A i, j \in DOMAIN memory.user_preferences[u][l] :
                  i # j => memory.user_preferences[u][l][i]
                               # memory.user_preferences[u][l][j]

\* A user with a recorded genre, platform and interest has searched for
\* that genre and another one on another platform: the profile has grown
\* by the new genre and the new platform, the recorded genre once in it.
C25_Witness ==
    /\ last.op = "learn_from_web_search"
    /\ last.user_id = "default"
    /\ "default" \in DOMAIN last.pre
    /\ last.pre["default"].genres = <<"rpg">>
    /\ last.pre["default"].interests = <<"zelda">>
    /\ memory.user_preferences["default"].genres = <<"rpg", "racing">>
    /\ memory.user_preferences["default"].platforms = <<"pc", "xbox">>
    /\ memory.user_preferences["default"].interests = <<"zelda">>

\* C30: a memory store constructed on the memory file holds the facts,
\* preferences, context, patterns and interaction log the store that wrote
\* the file held at its last write in full; constructed on a file that is
\* missing, cannot be read or does not parse, it is empty.
C30_ReloadRestores ==
    last.op = "load_memory" =>
        memory = IF memory_json.kind = "json" /\ last.w = "ok" THEN last.saved
                 ELSE NoMemory

\* A store that had learned a fact and a conversation and written its
\* file was constructed anew on that file: it holds the fact, the profile,
\* the context, the pattern and the logged conversation.
C30_Witness ==
    /\ last.op = "load_memory"
    /\ last.w = "ok"
    /\ memory_json.kind = "json"
    /\ memory = last.saved
    /\ Len(StoredFacts) = 1
    /\ Len(memory.successful_interactions) = 1
    /\ "default" \in DOMAIN memory.user_preferences
    /\ memory.conversation_context # <<>>
    /\ memory.learned_patterns # EmptyDict

(***************************************************************************)
(* Two processes on one persist directory.                                 *)
(***************************************************************************)
Interactions(mem) ==
    {mem.successful_interactions[i] : i \in DOMAIN mem.successful_interactions}

\* The call that has just returned wrote the index file.
IndexWritten == last.op = "add_document" /\ last.ret

\* The keys the index file held when it was overwritten that the writer
\* had not read and did not add itself.
UnreadKeys == (Keys(last.pre.entries) \ Keys(last.seen)) \ {last.key}

\* The logged conversations the memory file held when it was overwritten
\* that the writer had not loaded.
UnreadInteractions == Interactions(last.pre.data) \ Interactions(last.loaded)

\* C26: with two processes on one persist directory, a file that has just
\* been written holds what its writer held: the index the keys the writer
\* read and its own, the memory file the writer's memory, state.json the
\* writer's state.  What the other process wrote after the writer read the
\* file is gone from it.  A call returns what it would have returned alone,
\* and a call that has read the index can always go on to write it.
C26_LastWriterWins ==
    /\ IndexWritten =>
           /\ ingested_index.kind = "json"
           /\ Keys(ingested_index.entries) = Keys(last.seen) \cup {last.key}
           /\ UnreadKeys \cap Keys(ingested_index.entries) = {}
    /\ last.op = "add_document" => last.ret = (last.key \notin Keys(last.seen))
    /\ last.op = "learn_from_conversation" =>
           /\ memory_json.kind = "json"
           /\ memory_json.data = procs[last.p].memory
           /\ UnreadInteractions \cap Interactions(memory_json.data) = {}
    /\ last.op = "transition" =>
           /\ last.ret = last.allowed
           /\ last.ret =>
                  /\ state_json.kind = "json"
                  /\ state_json.state = value(procs[last.p].state_machine.state)
           /\ ~last.ret => state_json = last.pre
    /\ \A p \in Procs : procs[p].pc = "adding" => ENABLED AddWrite(p)

\* One process read the index, the other added a document, and the first
\* then wrote the index: the other's key is not in the file.  The other
\* process had also logged a conversation the memory file's last writer
\* had not loaded.
C26_Witness ==
    /\ IndexWritten
    /\ UnreadKeys # {}
    /\ Cardinality(ingested_index.entries) = 1
    /\ memory_json.kind = "json"
    /\ \E p \in Procs : /\ memory_json.data = procs[p].memory
                        /\ \E q \in Procs :
                               Interactions(procs[q].memory)
                                   \ Interactions(memory_json.data) # {}

(***************************************************************************)
(* The error return of process_query.                                      *)
(***************************************************************************)
\* The step is a process_query call that returns the error response.
ErrorReturned ==
    /\ last'.op = "process_query"
    /\ last'.response.answer.kind = "error"
    /\ last'.response.search_method = "error"

\* C27: a process_query call that returns the error response has added no
\* document to the collection, the dedup index or the backups, has left
\* the memory store and the memory file as they were, and has appended
\* nothing to the conversation transcript.
C27_ErrorLeavesNoTrace ==
    [][ErrorReturned =>
           UNCHANGED <<collection, ingested_index, documents, memory, memory_json,
                       conversation_history>>]_vars

\* An agent that had answered a question from two web documents was asked
\* again; the web search returned two documents and the answer's
\* confidence was then refused by the response model, the last point a
\* call can fail at.  The error response came back, and the store, the
\* memory and the transcript hold what the first answer left.
C27_Witness ==
    /\ last.op = "process_query"
    /\ last.response = error_response("validation")
    /\ Len(last.inp.web.results) = 2
    /\ Cardinality(collection) = 2
    /\ Cardinality(ingested_index.entries) = 2
    /\ Len(memory.successful_interactions) = 1
    /\ memory_json.kind = "json"
    /\ Len(conversation_history) = 1

====
